---- MODULE Spec2Model ----
(***************************************************************************)
(* Police Violations System: the SQLite data layer of src/database.py.     *)
(*                                                                         *)
(* Each table is the sequence of its rows in rowid order.  A row is a      *)
(* record over the modelled columns of the CREATE TABLE statement.  Every  *)
(* method of class Database is an operator from the table (and the clock)  *)
(* to the new table, the Python return value and the SQLite error, and an  *)
(* action that applies it.  The connection is opened without               *)
(* "PRAGMA foreign_keys = ON", so SQLite does not enforce the FOREIGN KEY  *)
(* clauses; NOT NULL, CHECK, UNIQUE and PRIMARY KEY are enforced.          *)
(***************************************************************************)
EXTENDS Integers, Sequences, FiniteSets, TLC

VARIABLES users, violations, seizures, infractions, evidence, activity_log,
          statistics, now, last,
          failed_attempts_tracker, failed_attempts_json, clock, click, lockouts,
          app

vars == <<users, violations, seizures, infractions, evidence, activity_log,
          statistics, now, last,
          failed_attempts_tracker, failed_attempts_json, clock, click, lockouts,
          app>>

tables == <<users, violations, seizures, infractions, evidence, activity_log>>

\* the state of the data layer
store == <<tables, statistics, now, last>>

\* the state of the login window of src/login_window.py: the dict of the window,
\* the file failed_attempts.json, the wall clock in minutes, the outcome of the
\* last click on the login button, and the lockout times computed so far
login == <<failed_attempts_tracker, failed_attempts_json, clock, click, lockouts>>

\* the state outside the data layer; app is the application object of
\* src/app.py with its initializer thread and its windows
session == <<login, app>>

(***************************************************************************)
(* Bounds of the model.                                                    *)
(***************************************************************************)
\* rows written to all tables together
MaxRows == 2
\* last reading of the clock
MaxTime == 1
\* seconds of a day: second 0 is 00:00:00, the last one is 23:59:59
SecondsPerDay == 2
\* last reading of the wall clock of the login window, in minutes
MaxClock == 16

(***************************************************************************)
(* Values.                                                                 *)
(***************************************************************************)
\* Python None / SQL NULL in a TEXT column
None == "None"
\* Python None / SQL NULL in an INTEGER, REAL or TIMESTAMP column
NoneInt == -1

\* Python None / SQL NULL where a datetime is expected
NoneDatetime == [type |-> "NoneType"]

\* A datetime.datetime object.  A day has the seconds 0 .. LastSecond, the last
\* one standing for 23:59:59; microsecond 0 is a whole second.
Datetime(day, second, microsecond) ==
    [type |-> "datetime", day |-> day, second |-> second, microsecond |-> microsecond]

\* sqlite3's default adapter binds a datetime as the text of isoformat(" "),
\* 'YYYY-MM-DD HH:MM:SS' followed by '.ffffff' when the microsecond is not 0; the
\* connection registers no converter, so a TIMESTAMP column is read back as that
\* text, a str.
adapt_datetime(val) ==
    IF val = NoneDatetime THEN val ELSE [val EXCEPT !.type = "str"]

LastSecond == SecondsPerDay - 1

\* date.replace(hour=.., minute=.., second=..): the microsecond is kept
replace(date, second) == [date EXCEPT !.second = second]

\* date.date(), bound by sqlite3's default adapter as the text 'YYYY-MM-DD'
adapt_date(val) == [type |-> "str", day |-> val.day]

\* CURRENT_TIMESTAMP at clock reading n: the text 'YYYY-MM-DD HH:MM:SS'
CURRENT_TIMESTAMP(n) ==
    [type |-> "str", day |-> n \div SecondsPerDay, second |-> n % SecondsPerDay,
     microsecond |-> 0]

\* json.dumps: the JSON text of a value
json_dumps(obj) == [type |-> "str", json |-> obj]

\* text comparison of two adapted datetimes, x <= y: the texts agree with the
\* order of (day, second, microsecond), a text without fraction being a proper
\* prefix of, and so below, every text with one
TextLeq(x, y) ==
    \/ x.day < y.day
    \/ x.day = y.day /\ x.second < y.second
    \/ x.day = y.day /\ x.second = y.second /\ x.microsecond <= y.microsecond

Roles == {"admin", "officer", "supervisor", "analyst"}
ViolationTypes == {"traffic", "parking", "criminal", "administrative", "other"}
SeverityLevels == {"minor", "moderate", "serious", "critical"}
ViolationStatuses == {"open", "closed", "appealed", "dismissed", "resolved"}
ItemCategories == {"vehicle", "documents", "contraband", "weapon", "currency", "other"}
SeizureStatuses == {"stored", "released", "destroyed", "auctioned", "pending"}
InfractionStatuses == {"pending", "contested", "resolved", "dismissed", "appealed"}
EvidenceTypes == {"photo", "video", "audio", "document", "physical", "digital",
                  "witness_statement"}
EvidenceStatuses == {"stored", "destroyed", "released", "lost", "pending"}

(***************************************************************************)
(* The schema: per table, the primary key, the NOT NULL columns, the CHECK *)
(* constraints and the UNIQUE columns.                                     *)
(***************************************************************************)
PrimaryKey(tbl) ==
    CASE tbl = "users" -> "user_id"
      [] tbl = "violations" -> "violation_id"
      [] tbl = "seizures" -> "seizure_id"
      [] tbl = "infractions" -> "infraction_id"
      [] tbl = "evidence" -> "evidence_id"
      [] tbl = "activity_log" -> "log_id"

\* NOT NULL columns of type TEXT
NotNullText(tbl) ==
    CASE tbl = "users" -> {"username", "email", "full_name", "role"}
      [] tbl = "violations" -> {"violation_number", "violator_name", "violation_type",
                                "severity_level", "status"}
      [] tbl = "seizures" -> {"seizure_number", "item_category", "status"}
      [] tbl = "infractions" -> {"infraction_number", "infraction_type", "status"}
      [] tbl = "evidence" -> {"evidence_number", "evidence_type", "description", "status"}
      [] tbl = "activity_log" -> {"action_type"}

\* NOT NULL columns of type TIMESTAMP bound from a datetime argument
NotNullTimestamp(tbl) ==
    CASE tbl = "violations" -> {"violation_date"}
      [] tbl = "seizures" -> {"seizure_date"}
      [] OTHER -> {}

\* NOT NULL columns of type INTEGER
NotNullInt(tbl) ==
    CASE tbl = "users" -> {}
      [] tbl = "violations" -> {"officer_id"}
      [] tbl = "seizures" -> {"violation_id", "officer_id"}
      [] tbl = "infractions" -> {"violation_id"}
      [] tbl = "evidence" -> {"violation_id", "collected_by"}
      [] tbl = "activity_log" -> {"user_id"}

UniqueColumns(tbl) ==
    CASE tbl = "users" -> {"username", "email", "badge_number"}
      [] tbl = "violations" -> {"violation_number"}
      [] tbl = "seizures" -> {"seizure_number"}
      [] tbl = "infractions" -> {"infraction_number"}
      [] tbl = "evidence" -> {"evidence_number"}
      [] tbl = "activity_log" -> {}

\* A NULL passes a CHECK (the IN expression is NULL, not false); NOT NULL rejects it.
InDomain(v, domain) == v = None \/ v \in domain

\* Variant of the schema whose violations.status column carries no CHECK.
CheckConstraintsWithoutStatus(tbl, row) ==
    CASE tbl = "users" -> InDomain(row.role, Roles)
      [] tbl = "violations" -> /\ InDomain(row.violation_type, ViolationTypes)
                               /\ InDomain(row.severity_level, SeverityLevels)
      [] tbl = "seizures" -> /\ InDomain(row.item_category, ItemCategories)
                             /\ InDomain(row.status, SeizureStatuses)
      [] tbl = "infractions" -> InDomain(row.status, InfractionStatuses)
      [] tbl = "evidence" -> /\ InDomain(row.evidence_type, EvidenceTypes)
                             /\ InDomain(row.status, EvidenceStatuses)
      [] tbl = "activity_log" -> TRUE

CheckConstraints(tbl, row) ==
    CASE tbl = "users" -> InDomain(row.role, Roles)
      [] tbl = "violations" -> /\ InDomain(row.violation_type, ViolationTypes)
                               /\ InDomain(row.severity_level, SeverityLevels)
                               /\ InDomain(row.status, ViolationStatuses)
      [] tbl = "seizures" -> /\ InDomain(row.item_category, ItemCategories)
                             /\ InDomain(row.status, SeizureStatuses)
      [] tbl = "infractions" -> InDomain(row.status, InfractionStatuses)
      [] tbl = "evidence" -> /\ InDomain(row.evidence_type, EvidenceTypes)
                             /\ InDomain(row.status, EvidenceStatuses)
      [] tbl = "activity_log" -> TRUE

(***************************************************************************)
(* SQLite statements.                                                      *)
(***************************************************************************)
RowsOf(t) == {t[i] : i \in DOMAIN t}

\* AUTOINCREMENT: one more than the largest rowid ever used; no method deletes.
NextRowId(t) == Len(t) + 1

\* Variant of the schema without UNIQUE columns: only the primary key conflicts.
UniqueConflictOnKeyOnly(tbl, others, row) ==
    \E o \in others : o[PrimaryKey(tbl)] = row[PrimaryKey(tbl)]

\* rows of `others` that hold the same non-NULL value in a UNIQUE column, or the
\* same primary key
UniqueConflict(tbl, others, row) ==
    \E o \in others :
        \/ o[PrimaryKey(tbl)] = row[PrimaryKey(tbl)]
        \/ \E c \in UniqueColumns(tbl) : row[c] # None /\ o[c] = row[c]

\* The constraint a row fails, in the order SQLite tests them, or "none".
ConstraintError(tbl, others, row) ==
    IF \/ \E c \in NotNullText(tbl) : row[c] = None
       \/ \E c \in NotNullInt(tbl) : row[c] = NoneInt
       \/ \E c \in NotNullTimestamp(tbl) : row[c] = NoneDatetime
    THEN "NOT NULL"
    ELSE IF ~CheckConstraints(tbl, row) THEN "CHECK"
    ELSE IF UniqueConflict(tbl, others, row) THEN "UNIQUE"
    ELSE "none"

\* INSERT INTO tbl ... ; commit.  sqlite3.IntegrityError leaves the table as it was.
Insert(tbl, t, row) ==
    LET new == [row EXCEPT ![PrimaryKey(tbl)] = NextRowId(t)]
        err == ConstraintError(tbl, RowsOf(t), new)
    IN  IF err = "none"
        THEN [rows |-> Append(t, new), ret |-> "rowid", err |-> "none"]
        ELSE [rows |-> t, ret |-> "IntegrityError", err |-> err]

Override(row, updates) ==
    [c \in DOMAIN row |-> IF c \in DOMAIN updates THEN updates[c] ELSE row[c]]

\* Variant of UPDATE that writes the row without testing a constraint.
UpdateUnchecked(tbl, t, id, updates) ==
    [rows |-> [i \in DOMAIN t |-> IF t[i][PrimaryKey(tbl)] = id
                                  THEN Override(t[i], updates) ELSE t[i]],
     err |-> "none"]

\* UPDATE tbl SET ... WHERE pk = id.  The statement is atomic: a row that fails a
\* constraint aborts it and nothing is written.
Update(tbl, t, id, updates) ==
    LET pk == PrimaryKey(tbl)
        new == [i \in DOMAIN t |-> IF t[i][pk] = id THEN Override(t[i], updates) ELSE t[i]]
        errs == {ConstraintError(tbl, {new[j] : j \in DOMAIN t \ {i}}, new[i]) :
                    i \in {j \in DOMAIN t : t[j][pk] = id}} \ {"none"}
    IN  IF errs = {}
        THEN [rows |-> new, err |-> "none"]
        ELSE [rows |-> t, err |-> CHOOSE e \in errs : TRUE]

Restrict(kwargs, fields) == [k \in DOMAIN kwargs \cap fields |-> kwargs[k]]

\* Variant of the update_* body without the early return on an empty filtered
\* dict: it stamps updated_at and runs the UPDATE whatever is left.
UpdateMethodWithoutEarlyReturn(tbl, allowed_fields, t, id, kwargs, utcnow) ==
    LET updates == Restrict(kwargs, allowed_fields)
        stamped == [k \in DOMAIN updates \cup {"updated_at"} |->
                       IF k = "updated_at" THEN utcnow ELSE updates[k]]
        r == Update(tbl, t, id, stamped)
    IN  IF r.err = "none"
        THEN [rows |-> r.rows, ret |-> "True", err |-> "none"]
        ELSE [rows |-> t, ret |-> "False", err |-> r.err]

\* The body shared by the five update_* methods: filter kwargs by the allow-list,
\* return False when nothing is left, else stamp updated_at, run the UPDATE and
\* return True, or False when SQLite raises.
UpdateMethod(tbl, allowed_fields, t, id, kwargs, utcnow) ==
    LET updates == Restrict(kwargs, allowed_fields)
    IN  IF DOMAIN updates = {}
        THEN [rows |-> t, ret |-> "False", err |-> "none"]
        ELSE LET stamped == [k \in DOMAIN updates \cup {"updated_at"} |->
                               IF k = "updated_at" THEN utcnow ELSE updates[k]]
                 r == Update(tbl, t, id, stamped)
             IN  IF r.err = "none"
                 THEN [rows |-> r.rows, ret |-> "True", err |-> "none"]
                 ELSE [rows |-> t, ret |-> "False", err |-> r.err]

(***************************************************************************)
(* User management.                                                        *)
(***************************************************************************)
create_user(t, a, current_timestamp) ==
    Insert("users", t,
           [user_id |-> NoneInt, username |-> a.username, email |-> a.email,
            full_name |-> a.full_name, badge_number |-> a.badge_number,
            role |-> a.role, updated_at |-> current_timestamp])

allowed_fields_user ==
    {"email", "full_name", "badge_number", "role", "department", "phone_number",
     "is_active"}

update_user(t, user_id, kwargs, utcnow) ==
    UpdateMethod("users", allowed_fields_user, t, user_id, kwargs, utcnow)

(***************************************************************************)
(* Violations management.                                                  *)
(***************************************************************************)
create_violation(t, a, current_timestamp) ==
    Insert("violations", t,
           [violation_id |-> NoneInt, violation_number |-> a.violation_number,
            violator_name |-> a.violator_name, violation_date |-> adapt_datetime(a.violation_date),
            violation_type |-> a.violation_type, severity_level |-> a.severity_level,
            officer_id |-> a.officer_id, status |-> "open",
            fine_amount |-> a.fine_amount, evidence_count |-> 0,
            updated_at |-> current_timestamp])

\* Variant of the allow-list of update_violation that admits the business number.
allowed_fields_violation_with_number ==
    {"violation_number", "violator_name", "violator_license_number", "violator_phone",
     "violator_address", "violation_type", "severity_level", "description", "location",
     "latitude", "longitude", "status", "fine_amount", "paid_date", "notes"}

allowed_fields_violation ==
    {"violator_name", "violator_license_number", "violator_phone", "violator_address",
     "violation_type", "severity_level", "description", "location", "latitude",
     "longitude", "status", "fine_amount", "paid_date", "notes"}

update_violation(t, violation_id, kwargs, utcnow) ==
    UpdateMethod("violations", allowed_fields_violation, t, violation_id, kwargs, utcnow)

(***************************************************************************)
(* Seizures management.                                                    *)
(***************************************************************************)
create_seizure(t, a, current_timestamp) ==
    Insert("seizures", t,
           [seizure_id |-> NoneInt, seizure_number |-> a.seizure_number,
            violation_id |-> a.violation_id, item_category |-> a.item_category,
            officer_id |-> a.officer_id, seizure_date |-> adapt_datetime(a.seizure_date),
            release_date |-> NoneInt, release_authorized_by |-> NoneInt,
            release_reason |-> None, status |-> "stored",
            updated_at |-> current_timestamp])

allowed_fields_seizure ==
    {"item_description", "item_quantity", "item_category", "estimated_value",
     "serial_number", "storage_location", "status", "condition_notes", "release_date",
     "release_reason", "release_authorized_by", "photo_evidence_urls"}

update_seizure(t, seizure_id, kwargs, utcnow) ==
    UpdateMethod("seizures", allowed_fields_seizure, t, seizure_id, kwargs, utcnow)

(***************************************************************************)
(* Infractions management.                                                 *)
(***************************************************************************)
create_infraction(t, a, current_timestamp) ==
    Insert("infractions", t,
           [infraction_id |-> NoneInt, infraction_number |-> a.infraction_number,
            violation_id |-> a.violation_id, infraction_type |-> a.infraction_type,
            points |-> a.points, status |-> "pending", prosecutor_id |-> NoneInt,
            judge_id |-> NoneInt, created_at |-> current_timestamp,
            updated_at |-> current_timestamp])

allowed_fields_infraction ==
    {"infraction_type", "description", "statute_reference", "points", "minimum_fine",
     "maximum_fine", "status", "court_appearance_date", "court_location", "case_number",
     "prosecutor_id", "judge_id", "outcome", "sentence_details",
     "probation_period_months"}

update_infraction(t, infraction_id, kwargs, utcnow) ==
    UpdateMethod("infractions", allowed_fields_infraction, t, infraction_id, kwargs, utcnow)

(***************************************************************************)
(* Evidence management.                                                    *)
(***************************************************************************)
create_evidence(t, a, current_timestamp) ==
    Insert("evidence", t,
           [evidence_id |-> NoneInt, evidence_number |-> a.evidence_number,
            violation_id |-> a.violation_id, evidence_type |-> a.evidence_type,
            description |-> a.description, collected_by |-> a.collected_by,
            status |-> "stored", updated_at |-> current_timestamp])

allowed_fields_evidence ==
    {"description", "storage_location", "status", "chain_of_custody", "notes"}

update_evidence(t, evidence_id, kwargs, utcnow) ==
    UpdateMethod("evidence", allowed_fields_evidence, t, evidence_id, kwargs, utcnow)

(***************************************************************************)
(* Activity logging.                                                       *)
(***************************************************************************)
\* Variant of log_activity that keeps one row: it writes over the newest entry.
log_activity_overwriting(t, a, current_timestamp) ==
    LET r == Insert("activity_log", <<>>,
                    [log_id |-> NoneInt, user_id |-> a.user_id,
                     action_type |-> a.action_type, timestamp |-> current_timestamp])
    IN  IF t = <<>> \/ r.err # "none"
        THEN [r EXCEPT !.rows = t \o r.rows]
        ELSE [r EXCEPT !.rows = [t EXCEPT ![Len(t)] = [r.rows[1] EXCEPT !.log_id = Len(t)]]]

log_activity(t, a, current_timestamp) ==
    Insert("activity_log", t,
           [log_id |-> NoneInt, user_id |-> a.user_id, action_type |-> a.action_type,
            timestamp |-> current_timestamp])

(***************************************************************************)
(* Queries.  `if argument:` applies a filter when the argument is truthy:  *)
(* not None, not 0, not the empty string.                                  *)
(***************************************************************************)
TruthyInt(v) == v # NoneInt /\ v # 0
TruthyText(v) == v # None /\ v # ""
TruthyDatetime(v) == v # NoneDatetime

\* the order of the values of a column: the date columns hold text, compared as
\* text; created_at and timestamp are counted in seconds
ColumnLeq(column, x, y) ==
    IF column \in {"violation_date", "seizure_date"} THEN TextLeq(x, y) ELSE x <= y

\* ORDER BY column DESC of the rows s, given in rowid order: SQLite's sorter leaves
\* rows with equal keys in the order of the scan, by ascending rowid.
OrderByDesc(s, column) ==
    LET Leq(i, j) == ColumnLeq(column, s[i][column], s[j][column])
        Before(i, j) == \/ ~Leq(i, j)
                        \/ Leq(j, i) /\ i < j
        Position(i) == 1 + Cardinality({j \in DOMAIN s : Before(j, i)})
    IN  [k \in DOMAIN s |-> s[CHOOSE i \in DOMAIN s : Position(i) = k]]

\* LIMIT n: a negative n is no limit
Limit(s, n) == IF n < 0 \/ n >= Len(s) THEN s ELSE SubSeq(s, 1, n)

\* SELECT * FROM tbl WHERE pk = id; fetchone: the row as a dict, or None.  The
\* result is the sequence of the rows found, empty for None.
Get(tbl, t, id) == SelectSeq(t, LAMBDA r : r[PrimaryKey(tbl)] = id)

get_user(t, user_id) == Get("users", t, user_id)
get_violation(t, violation_id) == Get("violations", t, violation_id)
get_seizure(t, seizure_id) == Get("seizures", t, seizure_id)
get_infraction(t, infraction_id) == Get("infractions", t, infraction_id)
get_evidence(t, evidence_id) == Get("evidence", t, evidence_id)

\* the window filter of a query: column >= start_date, column <= end_date, each
\* applied when its argument is truthy, the argument bound as text
InWindow(text, start_date, end_date) ==
    /\ TruthyDatetime(start_date) => TextLeq(adapt_datetime(start_date), text)
    /\ TruthyDatetime(end_date) => TextLeq(text, adapt_datetime(end_date))

list_violations(t, a) ==
    OrderByDesc(
        SelectSeq(t, LAMBDA v :
            /\ TruthyInt(a.officer_id) => v.officer_id = a.officer_id
            /\ TruthyText(a.status) => v.status = a.status
            /\ TruthyText(a.violation_type) => v.violation_type = a.violation_type
            /\ TruthyText(a.severity_level) => v.severity_level = a.severity_level
            /\ InWindow(v.violation_date, a.start_date, a.end_date)),
        "violation_date")

list_seizures(t, a) ==
    OrderByDesc(
        SelectSeq(t, LAMBDA r :
            /\ TruthyInt(a.violation_id) => r.violation_id = a.violation_id
            /\ TruthyText(a.status) => r.status = a.status
            /\ TruthyText(a.item_category) => r.item_category = a.item_category
            /\ TruthyInt(a.officer_id) => r.officer_id = a.officer_id),
        "seizure_date")

list_infractions(t, a) ==
    OrderByDesc(
        SelectSeq(t, LAMBDA r :
            /\ TruthyInt(a.violation_id) => r.violation_id = a.violation_id
            /\ TruthyText(a.status) => r.status = a.status
            /\ TruthyText(a.infraction_type) => r.infraction_type = a.infraction_type),
        "created_at")

get_activity_log(t, user_id, limit) ==
    Limit(OrderByDesc(
              SelectSeq(t, LAMBDA r : TruthyInt(user_id) => r.user_id = user_id),
              "timestamp"),
          limit)

(***************************************************************************)
(* Statistics and reporting.                                               *)
(***************************************************************************)
RECURSIVE Sum(_)
Sum(s) == IF s = <<>> THEN 0 ELSE Head(s) + Sum(Tail(s))

\* stats[key] = stats.get(key, 0) + 1 over the rows: a dict from the values of
\* the column that occur to the number of rows holding each
CountBy(rows, column) ==
    [k \in {rows[i][column] : i \in DOMAIN rows} |->
        Cardinality({i \in DOMAIN rows : rows[i][column] = k})]

\* Variant of get_violation_statistics that leaves the lower bound of the window
\* out of its query.
get_violation_statistics_without_start(t, start_date, end_date) ==
    LET selected == SelectSeq(t, LAMBDA v : InWindow(v.violation_date, NoneDatetime, end_date))
    IN  [total_violations |-> Len(selected),
         violations_by_type |-> CountBy(selected, "violation_type"),
         violations_by_severity |-> CountBy(selected, "severity_level"),
         violations_by_status |-> CountBy(selected, "status"),
         total_fines |-> Sum([i \in DOMAIN selected |->
                                 IF TruthyInt(selected[i].fine_amount)
                                 THEN selected[i].fine_amount ELSE 0])]

get_violation_statistics(t, start_date, end_date) ==
    LET selected == SelectSeq(t, LAMBDA v : InWindow(v.violation_date, start_date, end_date))
    IN  [total_violations |-> Len(selected),
         violations_by_type |-> CountBy(selected, "violation_type"),
         violations_by_severity |-> CountBy(selected, "severity_level"),
         violations_by_status |-> CountBy(selected, "status"),
         total_fines |-> Sum([i \in DOMAIN selected |->
                                 IF TruthyInt(selected[i].fine_amount)
                                 THEN selected[i].fine_amount ELSE 0])]

\* SQL SUM: NULL when every value is NULL, else the sum of those that are not
SqlSum(values) ==
    IF \A i \in DOMAIN values : values[i] = NoneInt THEN NoneInt
    ELSE Sum([i \in DOMAIN values |-> IF values[i] = NoneInt THEN 0 ELSE values[i]])

\* GROUP BY officer_id ORDER BY violations_count DESC; SQL leaves the order of
\* groups with equal counts open
get_officer_performance(t, officer_id, start_date, end_date) ==
    LET selected == SelectSeq(t, LAMBDA v :
                        /\ TruthyInt(officer_id) => v.officer_id = officer_id
                        /\ InWindow(v.violation_date, start_date, end_date))
        Of(o) == SelectSeq(selected, LAMBDA v : v.officer_id = o)
        groups == {[officer_id |-> o, violations_count |-> Len(Of(o)),
                    total_fines |-> SqlSum([i \in DOMAIN Of(o) |-> Of(o)[i].fine_amount])] :
                     o \in {selected[i].officer_id : i \in DOMAIN selected}}
    IN  CHOOSE q \in [1 .. Cardinality(groups) -> groups] :
            /\ \A i, j \in DOMAIN q : i # j => q[i] # q[j]
            /\ \A i, j \in DOMAIN q : i < j => q[i].violations_count >= q[j].violations_count

get_seizure_statistics(t, start_date, end_date) ==
    LET selected == SelectSeq(t, LAMBDA r : InWindow(r.seizure_date, start_date, end_date))
    IN  [total_seizures |-> Len(selected),
         seizures_by_category |-> CountBy(selected, "item_category"),
         seizures_by_status |-> CountBy(selected, "status")]

get_infraction_statistics(t, start_date, end_date) ==
    LET selected == SelectSeq(t, LAMBDA r :
                        InWindow(CURRENT_TIMESTAMP(r.created_at), start_date, end_date))
    IN  [total_infractions |-> Len(selected),
         infractions_by_type |-> CountBy(selected, "infraction_type"),
         infractions_by_status |-> CountBy(selected, "status"),
         total_points |-> Sum([i \in DOMAIN selected |-> selected[i].points])]

\* the stat_id AUTOINCREMENT gives: one more than the largest ever given, which
\* is the largest stored, the newest row being replaced only by a newer one
NextStatId(t) ==
    IF t = <<>> THEN 1
    ELSE 1 + CHOOSE n \in {t[i].stat_id : i \in DOMAIN t} :
                 \A i \in DOMAIN t : t[i].stat_id <= n

\* INSERT OR REPLACE INTO statistics: the row of the same date is deleted and the
\* new row stored under a new stat_id; the columns the statement leaves out take
\* their defaults
InsertOrReplace(t, row) ==
    Append(SelectSeq(t, LAMBDA r : r.date # row.date),
           [row EXCEPT !.stat_id = NextStatId(t)])

\* Variant of save_daily_statistics that also empties the activity log.
save_daily_statistics_purging_log(db, date, current_timestamp) ==
    LET start_date == replace(date, 0)
        end_date == replace(date, LastSecond)
        stats == get_violation_statistics(db.violations, start_date, end_date)
        seizure_stats == get_seizure_statistics(db.seizures, start_date, end_date)
        officer_perf == json_dumps(get_officer_performance(db.violations, NoneInt,
                                                           start_date, end_date))
    IN  [db |-> [db EXCEPT !.activity_log = <<>>,
                           !.statistics = InsertOrReplace(db.statistics,
                    [stat_id |-> NoneInt, date |-> adapt_date(date),
                     total_violations |-> stats.total_violations,
                     total_seizures |-> seizure_stats.total_seizures,
                     total_infractions |-> 0,
                     total_fines |-> stats.total_fines,
                     violations_by_type |-> json_dumps(stats.violations_by_type),
                     violations_by_severity |-> json_dumps(stats.violations_by_severity),
                     officer_performance |-> officer_perf,
                     created_at |-> current_timestamp])],
         ret |-> "True", err |-> "none"]

\* db is the database, a record of the seven tables
save_daily_statistics(db, date, current_timestamp) ==
    LET start_date == replace(date, 0)
        end_date == replace(date, LastSecond)
        stats == get_violation_statistics(db.violations, start_date, end_date)
        seizure_stats == get_seizure_statistics(db.seizures, start_date, end_date)
        officer_perf == json_dumps(get_officer_performance(db.violations, NoneInt,
                                                           start_date, end_date))
    IN  [db |-> [db EXCEPT !.statistics = InsertOrReplace(db.statistics,
                    [stat_id |-> NoneInt, date |-> adapt_date(date),
                     total_violations |-> stats.total_violations,
                     total_seizures |-> seizure_stats.total_seizures,
                     total_infractions |-> 0,
                     total_fines |-> stats.total_fines,
                     violations_by_type |-> json_dumps(stats.violations_by_type),
                     violations_by_severity |-> json_dumps(stats.violations_by_severity),
                     officer_performance |-> officer_perf,
                     created_at |-> current_timestamp])],
         ret |-> "True", err |-> "none"]

get_daily_statistics(t, date) == SelectSeq(t, LAMBDA r : r.date = adapt_date(date))

(***************************************************************************)
(* The calls the environment makes: small sets of arguments that reach     *)
(* every constraint of every table.                                        *)
(***************************************************************************)
\* Against u1/e1/b1 the second repeats the username alone, the third the email
\* alone and the fourth the badge number alone; the second and the third share
\* nothing (their badge numbers are both NULL) and can be stored together.
CreateUserValid ==
    {[username |-> n[1], email |-> n[2], full_name |-> "n1", badge_number |-> n[3],
      role |-> "officer"] :
        n \in {<<"u1", "e1", "b1">>, <<"u1", "e2", None>>, <<"u2", "e1", None>>,
               <<"u2", "e2", "b1">>}}

CreateUserInputs ==
    CreateUserValid
    \cup {[a EXCEPT !.role = "bogus"] : a \in CreateUserValid}
    \cup {[a EXCEPT !.username = None] : a \in CreateUserValid}

CreateViolationValid ==
    {[violation_number |-> n, violator_name |-> "n1", violation_date |-> Datetime(0, 0, 0),
      violation_type |-> "traffic", severity_level |-> "minor", officer_id |-> 1,
      fine_amount |-> NoneInt] : n \in {"V1", "V2"}}

CreateViolationInputs ==
    CreateViolationValid
    \cup {[a EXCEPT !.violation_type = "bogus"] : a \in CreateViolationValid}
    \cup {[a EXCEPT !.severity_level = "bogus"] : a \in CreateViolationValid}
    \cup {[a EXCEPT !.violator_name = None] : a \in CreateViolationValid}

CreateSeizureValid ==
    {[seizure_number |-> n, violation_id |-> 1, item_category |-> "vehicle",
      officer_id |-> 1, seizure_date |-> Datetime(0, 0, 0)] : n \in {"S1", "S2"}}

CreateSeizureInputs ==
    CreateSeizureValid
    \cup {[a EXCEPT !.item_category = "bogus"] : a \in CreateSeizureValid}

CreateInfractionValid ==
    {[infraction_number |-> n, violation_id |-> 1, infraction_type |-> "speeding",
      points |-> 0] : n \in {"I1", "I2"}}

CreateInfractionInputs ==
    CreateInfractionValid
    \cup {[a EXCEPT !.infraction_type = None] : a \in CreateInfractionValid}

CreateEvidenceValid ==
    {[evidence_number |-> n, violation_id |-> 1, evidence_type |-> "photo",
      description |-> "d1", collected_by |-> 1] : n \in {"E1", "E2"}}

CreateEvidenceInputs ==
    CreateEvidenceValid
    \cup {[a EXCEPT !.evidence_type = "bogus"] : a \in CreateEvidenceValid}

LogActivityInputs == {[user_id |-> 1, action_type |-> "create"]}

\* keyword arguments of update_*: none, outside the allow-list only, a change of
\* allow-listed fields next to an attempt on the business number, and an
\* enumerated value outside its domain (or None) next to another allow-listed
\* field.  The id parameter's own name is no keyword: Python rejects such a call
\* (TypeError) before the method runs.
NoKwargs == [k \in {} |-> None]

UpdateUserInputs ==
    {NoKwargs, [username |-> "u9"],
     [role |-> "supervisor", full_name |-> "n2", username |-> "u9"],
     [role |-> "bogus", full_name |-> "n2"], [role |-> None]}

UpdateViolationInputs ==
    {NoKwargs, [violation_number |-> "V9", evidence_count |-> 5, officer_id |-> 2],
     [status |-> "closed", violator_name |-> "n2", violation_number |-> "V9"],
     [status |-> "bogus", violator_name |-> "n2"],
     [violation_type |-> "bogus"], [severity_level |-> "bogus"], [status |-> None]}

UpdateSeizureInputs ==
    {NoKwargs, [seizure_number |-> "S9", violation_id |-> 2],
     [status |-> "released", release_date |-> 1, release_authorized_by |-> 1,
      release_reason |-> "returned", seizure_number |-> "S9"],
     [release_reason |-> "returned", release_authorized_by |-> 1],
     [status |-> "bogus", release_reason |-> "returned"],
     [item_category |-> "bogus"]}

UpdateInfractionInputs ==
    {NoKwargs, [infraction_number |-> "I9", violation_id |-> 2],
     [status |-> "resolved", judge_id |-> 1, prosecutor_id |-> 1,
      infraction_number |-> "I9"],
     [status |-> "bogus", points |-> 3]}

UpdateEvidenceInputs ==
    {NoKwargs, [evidence_number |-> "E9", violation_id |-> 2, collected_by |-> 2],
     [status |-> "destroyed", description |-> "d2", evidence_number |-> "E9"],
     [status |-> "bogus", description |-> "d2"]}

\* ids an update is called with: every stored key and one that is not stored
Ids(t) == 1 .. NextRowId(t)

(***************************************************************************)
(* The login window (class LoginWindow of src/login_window.py).  A method  *)
(* is an operator from the window's dict, the file failed_attempts.json    *)
(* and the clock to their new values and what the method returns.          *)
(***************************************************************************)
MAX_LOGIN_ATTEMPTS == 5
\* minutes
LOCKOUT_DURATION == 15

\* datetime.now(), the clock read in minutes, and datetime + timedelta(minutes)
LoginDatetime(minute) == [type |-> "datetime", minute |-> minute]
timedelta(date, minutes) == [date EXCEPT !.minute = @ + minutes]

\* datetime.isoformat() and datetime.fromisoformat(): the text of the datetime
\* and the datetime of the text
isoformat(date) == [date EXCEPT !.type = "str"]
fromisoformat(text) == [text EXCEPT !.type = "datetime"]

\* str.strip() of the text of an input field
strip(text) == IF text = " admin " THEN "admin" ELSE text

\* bcrypt: the hash of a password, and bcrypt.checkpw
hash_password(password) == [type |-> "hash", of |-> password]
verify_password(password, password_hash) == password_hash.of = password

\* load_credentials: the default credentials, written when credentials.json
\* does not exist
load_credentials ==
    [username \in {"admin", "user"} |->
        [password_hash |-> hash_password("password123")]]

\* failed_attempts.json: no file, or the text json.dump wrote
NoFile == [type |-> "absent"]

\* json.load of the text of a file
json_load(text) == text.json

\* save_failed_attempts: the dict dumped over the file
save_failed_attempts(tracker) == json_dumps(tracker)

\* dict[key] = value
SetItem(dict, key, value) ==
    [k \in DOMAIN dict \cup {key} |-> IF k = key THEN value ELSE dict[k]]

\* dict.pop(key, None)
Pop(dict, key) == [k \in DOMAIN dict \ {key} |-> dict[k]]

NewRecord == [attempts |-> 0, locked_until |-> NoneDatetime]

record_failed_attempt(tracker, username, minute) ==
    LET created == IF username \notin DOMAIN tracker
                   THEN SetItem(tracker, username, NewRecord) ELSE tracker
        counted == [created EXCEPT ![username].attempts = @ + 1]
        lockout_time == timedelta(LoginDatetime(minute), LOCKOUT_DURATION)
        locked == IF counted[username].attempts >= MAX_LOGIN_ATTEMPTS
                  THEN [counted EXCEPT ![username].locked_until = isoformat(lockout_time)]
                  ELSE counted
    IN  [tracker |-> locked, file |-> save_failed_attempts(locked),
         lockout |-> IF counted[username].attempts >= MAX_LOGIN_ATTEMPTS
                     THEN lockout_time.minute ELSE NoneInt]

\* Variant of is_account_locked that lifts an expired lock and keeps the count.
is_account_locked_keeping_attempts(tracker, file, username, minute) ==
    IF username \notin DOMAIN tracker
    THEN [tracker |-> tracker, file |-> file, ret |-> FALSE]
    ELSE IF tracker[username].locked_until # NoneDatetime
    THEN IF minute < fromisoformat(tracker[username].locked_until).minute
         THEN [tracker |-> tracker, file |-> file, ret |-> TRUE]
         ELSE LET reset == [tracker EXCEPT ![username].locked_until = NoneDatetime]
              IN  [tracker |-> reset, file |-> save_failed_attempts(reset), ret |-> FALSE]
    ELSE [tracker |-> tracker, file |-> file, ret |-> FALSE]

\* is_account_locked(username).  The file is written on the reset only.
is_account_locked(tracker, file, username, minute) ==
    IF username \notin DOMAIN tracker
    THEN [tracker |-> tracker, file |-> file, ret |-> FALSE]
    ELSE IF tracker[username].locked_until # NoneDatetime
    THEN IF minute < fromisoformat(tracker[username].locked_until).minute
         THEN [tracker |-> tracker, file |-> file, ret |-> TRUE]
         ELSE LET reset == SetItem(tracker, username, NewRecord)
              IN  [tracker |-> reset, file |-> save_failed_attempts(reset), ret |-> FALSE]
    ELSE [tracker |-> tracker, file |-> file, ret |-> FALSE]

\* Variant of authenticate_user that leaves the record of the username in place
\* on success.
authenticate_user_keeping_record(tracker, file, username, password, minute) ==
    LET credentials == load_credentials
        failed == record_failed_attempt(tracker, username, minute)
    IN  IF username \notin DOMAIN credentials
        THEN [tracker |-> failed.tracker, file |-> failed.file, lockout |-> failed.lockout,
              status |-> "user_not_found", emitted |-> {}, ret |-> FALSE]
        ELSE IF verify_password(password, credentials[username].password_hash)
        THEN [tracker |-> tracker, file |-> save_failed_attempts(tracker),
              lockout |-> NoneInt,
              status |-> "login_success", emitted |-> {"login_successful"}, ret |-> TRUE]
        ELSE [tracker |-> failed.tracker, file |-> failed.file, lockout |-> failed.lockout,
              status |-> "invalid_credentials", emitted |-> {}, ret |-> FALSE]

\* authenticate_user(username, password): the message shown, the signals emitted
authenticate_user(tracker, file, username, password, minute) ==
    LET credentials == load_credentials
        failed == record_failed_attempt(tracker, username, minute)
    IN  IF username \notin DOMAIN credentials
        THEN [tracker |-> failed.tracker, file |-> failed.file, lockout |-> failed.lockout,
              status |-> "user_not_found", emitted |-> {}, ret |-> FALSE]
        ELSE IF verify_password(password, credentials[username].password_hash)
        THEN [tracker |-> Pop(tracker, username),
              file |-> save_failed_attempts(Pop(tracker, username)), lockout |-> NoneInt,
              status |-> "login_success", emitted |-> {"login_successful"}, ret |-> TRUE]
        ELSE [tracker |-> failed.tracker, file |-> failed.file, lockout |-> failed.lockout,
              status |-> "invalid_credentials", emitted |-> {}, ret |-> FALSE]

\* on_login_clicked, with the texts of the two input fields
on_login_clicked(tracker, file, username_input, password_input, minute) ==
    LET username == strip(username_input)
        password == strip(password_input)
        checked == is_account_locked(tracker, file, username, minute)
    IN  IF checked.ret
        THEN [tracker |-> checked.tracker, file |-> checked.file, lockout |-> NoneInt,
              status |-> "account_locked", emitted |-> {}]
        ELSE IF username = "" \/ password = ""
        THEN [tracker |-> checked.tracker, file |-> checked.file, lockout |-> NoneInt,
              status |-> "invalid_input", emitted |-> {}]
        ELSE LET r == authenticate_user(checked.tracker, checked.file, username,
                                        password, minute)
             IN  [tracker |-> r.tracker, file |-> r.file, lockout |-> r.lockout,
                  status |-> r.status, emitted |-> r.emitted]

\* no click yet
NoClick == [username |-> "", status |-> "", emitted |-> {}]

(***************************************************************************)
(* The application (class PoliceViolationsApp of src/app.py) with its      *)
(* DatabaseInitializer thread.  pc is the step of run() the main thread is *)
(* at; thread is the state of the initializer.  The classes the            *)
(* application imports (the database manager, the login window, the main   *)
(* window) enter by the outcomes of their calls, which the application     *)
(* handles one by one: a call returns, or it raises.  signals and entered  *)
(* keep the signals emitted and the methods entered so far; emitted is the *)
(* signal of the last step.                                                *)
(***************************************************************************)
\* PoliceViolationsApp.__init__ and DatabaseInitializer.__init__
PoliceViolationsApp ==
    [pc |-> "setup_application", is_offline |-> FALSE,
     thread |-> "None", success |-> FALSE,
     login_window |-> "None", main_window |-> "None",
     connected |-> {}, dialogs |-> {}, signals |-> {}, entered |-> {},
     emitted |-> "", returned |-> NoneInt]

\* run, step 1: setup_application returns True, or False after an exception
setup_application(a, ok) ==
    IF ok THEN [a EXCEPT !.pc = "initialize_database", !.emitted = ""]
    ELSE [a EXCEPT !.pc = "return", !.returned = 1, !.emitted = "",
                   !.dialogs = @ \cup {"setup failed"}]

\* initialize_database: DatabaseInitializer() and start()
start_initializer(a) ==
    [a EXCEPT !.thread = "running", !.success = FALSE, !.pc = "wait", !.emitted = ""]

\* DatabaseInitializer.run: success = True, or the exception is kept and
\* success = False
DatabaseInitializer_run(a, ok) ==
    [a EXCEPT !.thread = "finished", !.success = ok, !.emitted = ""]

\* initialize_database, the except clause: a statement of the try block raised
initialize_database_raised(a) ==
    [a EXCEPT !.is_offline = TRUE, !.pc = "handle_database_error", !.emitted = ""]

\* Variant of the test of success that gives up the run when the database failed.
initialize_database_aborting(a) ==
    IF ~a.success
    THEN [a EXCEPT !.pc = "return", !.returned = 1, !.emitted = ""]
    ELSE [a EXCEPT !.pc = "show_login_window", !.emitted = ""]

\* initialize_database after wait: `if not self.db_initializer.success`
initialize_database(a) ==
    IF ~a.success
    THEN [a EXCEPT !.is_offline = TRUE, !.pc = "handle_database_error", !.emitted = ""]
    ELSE [a EXCEPT !.pc = "show_login_window", !.emitted = ""]

\* handle_database_error: the dialog "offline mode"
handle_database_error(a) ==
    [a EXCEPT !.dialogs = @ \cup {"offline mode"}, !.pc = "show_login_window",
              !.emitted = ""]

\* show_login_window: the window is constructed and shown, or the import or the
\* constructor raises and an error dialog is shown
show_login_window(a, ok) ==
    IF ok THEN [a EXCEPT !.login_window = "shown", !.emitted = "",
                         !.entered = @ \cup {"show_login_window"}]
    ELSE [a EXCEPT !.dialogs = @ \cup {"login window failed"}, !.emitted = "",
                   !.entered = @ \cup {"show_login_window"}]

\* show_main_window: the window is constructed and shown and the login window
\* closed, or the import or the constructor raises and an error dialog is shown
show_main_window(a, ok) ==
    IF ok THEN [a EXCEPT !.main_window = "shown", !.login_window = "closed",
                         !.entered = @ \cup {"show_main_window"}]
    ELSE [a EXCEPT !.dialogs = @ \cup {"main window failed"},
                   !.entered = @ \cup {"show_main_window"}]

\* Variant of steps 5 and 6 that calls show_main_window where it should pass it:
\* login_successful.connect(self.show_main_window()).
connect_signals_calling_slot(a) ==
    [show_main_window(a, TRUE) EXCEPT !.pc = "exec", !.emitted = ""]

\* run, steps 5 and 6: login_successful is connected to show_main_window;
\* logout_requested is connected to handle_logout `if self.main_window and ...`
connect_signals(a) ==
    [a EXCEPT !.connected = @ \cup {"login_successful"}
                              \cup (IF a.main_window # "None"
                                    THEN {"logout_requested"} ELSE {}),
              !.pc = "exec", !.emitted = ""]

\* the login window emits login_successful (login_window.py, line 304); the slot
\* runs if it is connected
login_successful(a, ok) ==
    LET emitted == [a EXCEPT !.signals = @ \cup {"login_successful"},
                             !.emitted = "login_successful"]
    IN  IF "login_successful" \in a.connected THEN show_main_window(emitted, ok)
        ELSE emitted

\* the main window emits logout_requested; handle_logout, which shows the login
\* window again, runs if it is connected
logout_requested(a, ok) ==
    LET emitted == [a EXCEPT !.signals = @ \cup {"logout_requested"},
                             !.emitted = "logout_requested"]
    IN  IF "logout_requested" \in a.connected
        THEN [show_login_window(emitted, ok) EXCEPT !.emitted = "logout_requested",
                                                    !.entered = @ \cup {"handle_logout"}]
        ELSE emitted

(***************************************************************************)
(* The state machine: one action per method, and the clock.                *)
(***************************************************************************)
TotalRows ==
    Len(users) + Len(violations) + Len(seizures) + Len(infractions) + Len(evidence)
    + Len(activity_log) + (NextStatId(statistics) - 1)

\* a call that stores a row is made while the model has room for the row
RoomFor(r) == r.ret = "rowid" => TotalRows < MaxRows

\* The methods are synchronous: `last` holds the method called, what it returned
\* or raised and the SQLite error it met, until the caller has taken the result.
NoCall == [op |-> "none", ret |-> "None", err |-> "none"]

Idle == last = NoCall

Init ==
    /\ users = <<>>
    /\ violations = <<>>
    /\ seizures = <<>>
    /\ infractions = <<>>
    /\ evidence = <<>>
    /\ activity_log = <<>>
    /\ statistics = <<>>
    /\ now = 0
    /\ last = NoCall
    /\ failed_attempts_tracker = <<>>
    /\ failed_attempts_json = NoFile
    /\ clock = 0
    /\ click = NoClick
    /\ lockouts = <<>>
    /\ app = PoliceViolationsApp

CreateUser ==
    /\ Idle
    /\ \E a \in CreateUserInputs :
        LET r == create_user(users, a, now)
        IN  /\ RoomFor(r)
            /\ users' = r.rows
            /\ last' = [op |-> "create_user", ret |-> r.ret, err |-> r.err]
            /\ UNCHANGED <<violations, seizures, infractions, evidence, activity_log, statistics, now, session>>

UpdateUser ==
    /\ Idle
    /\ \E id \in Ids(users), kwargs \in UpdateUserInputs :
        LET r == update_user(users, id, kwargs, now)
        IN  /\ users' = r.rows
            /\ last' = [op |-> "update_user", ret |-> r.ret, err |-> r.err]
            /\ UNCHANGED <<violations, seizures, infractions, evidence, activity_log, statistics, now, session>>

CreateViolation ==
    /\ Idle
    /\ \E a \in CreateViolationInputs :
        LET r == create_violation(violations, a, now)
        IN  /\ RoomFor(r)
            /\ violations' = r.rows
            /\ last' = [op |-> "create_violation", ret |-> r.ret, err |-> r.err]
            /\ UNCHANGED <<users, seizures, infractions, evidence, activity_log, statistics, now, session>>

UpdateViolation ==
    /\ Idle
    /\ \E id \in Ids(violations), kwargs \in UpdateViolationInputs :
        LET r == update_violation(violations, id, kwargs, now)
        IN  /\ violations' = r.rows
            /\ last' = [op |-> "update_violation", ret |-> r.ret, err |-> r.err]
            /\ UNCHANGED <<users, seizures, infractions, evidence, activity_log, statistics, now, session>>

CreateSeizure ==
    /\ Idle
    /\ \E a \in CreateSeizureInputs :
        LET r == create_seizure(seizures, a, now)
        IN  /\ RoomFor(r)
            /\ seizures' = r.rows
            /\ last' = [op |-> "create_seizure", ret |-> r.ret, err |-> r.err]
            /\ UNCHANGED <<users, violations, infractions, evidence, activity_log, statistics, now, session>>

UpdateSeizure ==
    /\ Idle
    /\ \E id \in Ids(seizures), kwargs \in UpdateSeizureInputs :
        LET r == update_seizure(seizures, id, kwargs, now)
        IN  /\ seizures' = r.rows
            /\ last' = [op |-> "update_seizure", ret |-> r.ret, err |-> r.err]
            /\ UNCHANGED <<users, violations, infractions, evidence, activity_log, statistics, now, session>>

CreateInfraction ==
    /\ Idle
    /\ \E a \in CreateInfractionInputs :
        LET r == create_infraction(infractions, a, now)
        IN  /\ RoomFor(r)
            /\ infractions' = r.rows
            /\ last' = [op |-> "create_infraction", ret |-> r.ret, err |-> r.err]
            /\ UNCHANGED <<users, violations, seizures, evidence, activity_log, statistics, now, session>>

UpdateInfraction ==
    /\ Idle
    /\ \E id \in Ids(infractions), kwargs \in UpdateInfractionInputs :
        LET r == update_infraction(infractions, id, kwargs, now)
        IN  /\ infractions' = r.rows
            /\ last' = [op |-> "update_infraction", ret |-> r.ret, err |-> r.err]
            /\ UNCHANGED <<users, violations, seizures, evidence, activity_log, statistics, now, session>>

CreateEvidence ==
    /\ Idle
    /\ \E a \in CreateEvidenceInputs :
        LET r == create_evidence(evidence, a, now)
        IN  /\ RoomFor(r)
            /\ evidence' = r.rows
            /\ last' = [op |-> "create_evidence", ret |-> r.ret, err |-> r.err]
            /\ UNCHANGED <<users, violations, seizures, infractions, activity_log, statistics, now, session>>

UpdateEvidence ==
    /\ Idle
    /\ \E id \in Ids(evidence), kwargs \in UpdateEvidenceInputs :
        LET r == update_evidence(evidence, id, kwargs, now)
        IN  /\ evidence' = r.rows
            /\ last' = [op |-> "update_evidence", ret |-> r.ret, err |-> r.err]
            /\ UNCHANGED <<users, violations, seizures, infractions, activity_log, statistics, now, session>>

LogActivity ==
    /\ Idle
    /\ \E a \in LogActivityInputs :
        LET r == log_activity(activity_log, a, now)
        IN  /\ RoomFor(r)
            /\ activity_log' = r.rows
            /\ last' = [op |-> "log_activity", ret |-> r.ret, err |-> r.err]
            /\ UNCHANGED <<users, violations, seizures, infractions, evidence, statistics, now, session>>

\* the caller takes the result of the call
Return ==
    /\ ~Idle
    /\ last' = NoCall
    /\ UNCHANGED <<tables, statistics, now, session>>

\* time passes between two calls
Tick ==
    /\ Idle
    /\ now < MaxTime
    /\ now' = now + 1
    /\ UNCHANGED <<tables, statistics, last, session>>

Next ==
    \/ CreateUser \/ UpdateUser
    \/ CreateViolation \/ UpdateViolation
    \/ CreateSeizure \/ UpdateSeizure
    \/ CreateInfraction \/ UpdateInfraction
    \/ CreateEvidence \/ UpdateEvidence
    \/ LogActivity
    \/ Return
    \/ Tick

Spec == Init /\ [][Next]_vars

(***************************************************************************)
(* Reporting: the same database, written with dated records and read and   *)
(* summarised by the query and statistics methods.                         *)
(***************************************************************************)
\* the start of day 0, an instant within its first second, one within its last
\* second, and the start of day 1
ReportDatetimes ==
    {Datetime(0, 0, 0), Datetime(0, 0, 1), Datetime(0, LastSecond, 1), Datetime(1, 0, 0)}

ReportViolationInputs ==
    {[violation_number |-> "V1", violator_name |-> "n1", violation_date |-> Datetime(0, 0, 0),
      violation_type |-> "traffic", severity_level |-> "minor", officer_id |-> 1,
      fine_amount |-> NoneInt],
     [violation_number |-> "V2", violator_name |-> "n1", violation_date |-> Datetime(0, 0, 1),
      violation_type |-> "parking", severity_level |-> "serious", officer_id |-> 0,
      fine_amount |-> 10],
     [violation_number |-> "V3", violator_name |-> "n1",
      violation_date |-> Datetime(0, LastSecond, 1),
      violation_type |-> "traffic", severity_level |-> "minor", officer_id |-> 2,
      fine_amount |-> 10],
     [violation_number |-> "V4", violator_name |-> "n1", violation_date |-> Datetime(1, 0, 0),
      violation_type |-> "traffic", severity_level |-> "serious", officer_id |-> 1,
      fine_amount |-> NoneInt]}

ReportSeizureInputs ==
    {[seizure_number |-> "S1", violation_id |-> 1, item_category |-> "vehicle",
      officer_id |-> 1, seizure_date |-> Datetime(0, 0, 1)],
     [seizure_number |-> "S2", violation_id |-> 0, item_category |-> "documents",
      officer_id |-> 0, seizure_date |-> Datetime(1, 0, 0)]}

ReportInfractionInputs ==
    {[infraction_number |-> "I1", violation_id |-> 1, infraction_type |-> "", points |-> 0],
     [infraction_number |-> "I2", violation_id |-> 0, infraction_type |-> "speeding",
      points |-> 3]}

\* update_violation of the reporting scenario: the case is closed and its fine
\* set to 0
ReportUpdateInputs == {[status |-> "closed", fine_amount |-> 0]}

ReportActivityInputs == {[user_id |-> u, action_type |-> "create"] : u \in {1, 2}}

\* the arguments of save_daily_statistics and get_daily_statistics: a whole
\* second, an instant with a sub-second part, and another day
SnapshotDates == {Datetime(0, 0, 0), Datetime(0, LastSecond, 1), Datetime(1, 0, 0)}

\* the windows <<start_date, end_date>> of a query: unbounded, bounded below,
\* bounded above, day 0 from its first to its last instant, and an empty one
Windows ==
    {<<NoneDatetime, NoneDatetime>>,
     <<Datetime(0, 0, 1), NoneDatetime>>,
     <<NoneDatetime, Datetime(0, 0, 1)>>,
     <<Datetime(0, 0, 0), Datetime(0, LastSecond, 1)>>,
     <<Datetime(1, 0, 0), Datetime(0, 0, 0)>>}

NoFilter ==
    [officer_id |-> NoneInt, violation_id |-> NoneInt, status |-> None,
     violation_type |-> None, severity_level |-> None, item_category |-> None,
     infraction_type |-> None, start_date |-> NoneDatetime, end_date |-> NoneDatetime]

\* the filters of the list methods: none, each one alone with a value that is
\* stored, with the value 0 or '', and some together
ListViolationsInputs ==
    {NoFilter, [NoFilter EXCEPT !.officer_id = 1], [NoFilter EXCEPT !.officer_id = 0],
     [NoFilter EXCEPT !.status = "closed"], [NoFilter EXCEPT !.violation_type = "traffic"],
     [NoFilter EXCEPT !.severity_level = "serious"],
     [NoFilter EXCEPT !.officer_id = 1, !.violation_type = "traffic",
                      !.start_date = Datetime(0, 0, 1)]}
    \cup {[NoFilter EXCEPT !.start_date = w[1], !.end_date = w[2]] : w \in Windows}

ListSeizuresInputs ==
    {NoFilter, [NoFilter EXCEPT !.violation_id = 1], [NoFilter EXCEPT !.violation_id = 0],
     [NoFilter EXCEPT !.status = "released"], [NoFilter EXCEPT !.item_category = "vehicle"],
     [NoFilter EXCEPT !.officer_id = 1], [NoFilter EXCEPT !.officer_id = 0],
     [NoFilter EXCEPT !.violation_id = 1, !.officer_id = 1]}

ListInfractionsInputs ==
    {NoFilter, [NoFilter EXCEPT !.violation_id = 1], [NoFilter EXCEPT !.violation_id = 0],
     [NoFilter EXCEPT !.status = "resolved"], [NoFilter EXCEPT !.infraction_type = ""],
     [NoFilter EXCEPT !.infraction_type = "speeding"],
     [NoFilter EXCEPT !.violation_id = 1, !.infraction_type = "speeding"]}

OfficerInputs == {NoneInt, 0, 1, 2}
LimitInputs == 0 .. MaxRows

\* the database a method works on
Database ==
    [users |-> users, violations |-> violations, seizures |-> seizures,
     infractions |-> infractions, evidence |-> evidence, activity_log |-> activity_log,
     statistics |-> statistics]

(***************************************************************************)
(* Provisioning.  The database is the record of its tables; a table that   *)
(* does not exist is no field of it.                                       *)
(***************************************************************************)
\* the tables in the order create_tables creates them
TableNames ==
    <<"users", "violations", "seizures", "infractions", "evidence", "activity_log",
      "statistics">>

\* Variant of CREATE TABLE IF NOT EXISTS that recreates the table: DROP TABLE IF
\* EXISTS, then CREATE TABLE.
DropAndCreateTable(db, tbl) ==
    [t \in DOMAIN db \cup {tbl} |-> IF t = tbl THEN <<>> ELSE db[t]]

\* CREATE TABLE IF NOT EXISTS tbl (...): an empty table when there is none, no
\* statement at all when there is one.
CreateTableIfNotExists(db, tbl) ==
    IF tbl \in DOMAIN db THEN db
    ELSE [t \in DOMAIN db \cup {tbl} |-> IF t = tbl THEN <<>> ELSE db[t]]

RECURSIVE CreateTablesFrom(_, _)
CreateTablesFrom(db, k) ==
    IF k > Len(TableNames) THEN db
    ELSE CreateTablesFrom(CreateTableIfNotExists(db, TableNames[k]), k + 1)

\* the seven CREATE TABLE IF NOT EXISTS statements, then commit
create_tables(db) == [db |-> CreateTablesFrom(db, 1), ret |-> "None", err |-> "none"]

\* create_tables is called on the open database, and Database(db_path) opens the
\* provisioned file again and calls it
Provision ==
    \E op \in {"create_tables", "__init__"} :
        LET r == create_tables(Database)
        IN  /\ Idle
            /\ users' = r.db.users
            /\ violations' = r.db.violations
            /\ seizures' = r.db.seizures
            /\ infractions' = r.db.infractions
            /\ evidence' = r.db.evidence
            /\ activity_log' = r.db.activity_log
            /\ statistics' = r.db.statistics
            /\ last' = [op |-> op, ret |-> r.ret, err |-> r.err]
            /\ UNCHANGED <<now, session>>

\* The writes of the reporting scenario: the create methods and log_activity,
\* called with the dated arguments.
ReportViolation ==
    \E a \in ReportViolationInputs :
        LET r == create_violation(violations, a, now)
        IN  /\ Idle
            /\ RoomFor(r)
            /\ violations' = r.rows
            /\ last' = [op |-> "create_violation", ret |-> r.ret, err |-> r.err]
            /\ UNCHANGED <<users, seizures, infractions, evidence, activity_log, statistics, now, session>>

ReportSeizure ==
    \E a \in ReportSeizureInputs :
        LET r == create_seizure(seizures, a, now)
        IN  /\ Idle
            /\ RoomFor(r)
            /\ seizures' = r.rows
            /\ last' = [op |-> "create_seizure", ret |-> r.ret, err |-> r.err]
            /\ UNCHANGED <<users, violations, infractions, evidence, activity_log, statistics, now, session>>

ReportInfraction ==
    \E a \in ReportInfractionInputs :
        LET r == create_infraction(infractions, a, now)
        IN  /\ Idle
            /\ RoomFor(r)
            /\ infractions' = r.rows
            /\ last' = [op |-> "create_infraction", ret |-> r.ret, err |-> r.err]
            /\ UNCHANGED <<users, violations, seizures, evidence, activity_log, statistics, now, session>>

ReportActivity ==
    \E a \in ReportActivityInputs :
        LET r == log_activity(activity_log, a, now)
        IN  /\ Idle
            /\ RoomFor(r)
            /\ activity_log' = r.rows
            /\ last' = [op |-> "log_activity", ret |-> r.ret, err |-> r.err]
            /\ UNCHANGED <<users, violations, seizures, infractions, evidence, statistics, now, session>>

ReviseViolation ==
    \E id \in Ids(violations), kwargs \in ReportUpdateInputs :
        LET r == update_violation(violations, id, kwargs, now)
        IN  /\ Idle
            /\ violations' = r.rows
            /\ last' = [op |-> "update_violation", ret |-> r.ret, err |-> r.err]
            /\ UNCHANGED <<users, seizures, infractions, evidence, activity_log,
                           statistics, now, session>>

\* A query writes nothing; the caller is handed a list ("list"), a dict ("dict")
\* or None ("None").
Fetched(result) == IF result = <<>> THEN "None" ELSE "dict"

GetUser ==
    \E id \in Ids(users) :
        LET result == get_user(users, id)
        IN  /\ Idle
            /\ last' = [op |-> "get_user", ret |-> Fetched(result), err |-> "none"]
            /\ UNCHANGED <<tables, statistics, now, session>>

GetViolation ==
    \E id \in Ids(violations) :
        LET result == get_violation(violations, id)
        IN  /\ Idle
            /\ last' = [op |-> "get_violation", ret |-> Fetched(result), err |-> "none"]
            /\ UNCHANGED <<tables, statistics, now, session>>

GetSeizure ==
    \E id \in Ids(seizures) :
        LET result == get_seizure(seizures, id)
        IN  /\ Idle
            /\ last' = [op |-> "get_seizure", ret |-> Fetched(result), err |-> "none"]
            /\ UNCHANGED <<tables, statistics, now, session>>

GetInfraction ==
    \E id \in Ids(infractions) :
        LET result == get_infraction(infractions, id)
        IN  /\ Idle
            /\ last' = [op |-> "get_infraction", ret |-> Fetched(result), err |-> "none"]
            /\ UNCHANGED <<tables, statistics, now, session>>

GetEvidence ==
    \E id \in Ids(evidence) :
        LET result == get_evidence(evidence, id)
        IN  /\ Idle
            /\ last' = [op |-> "get_evidence", ret |-> Fetched(result), err |-> "none"]
            /\ UNCHANGED <<tables, statistics, now, session>>

ListViolations ==
    \E a \in ListViolationsInputs :
        LET result == list_violations(violations, a)
        IN  /\ Idle
            /\ last' = [op |-> "list_violations", ret |-> "list", err |-> "none"]
            /\ UNCHANGED <<tables, statistics, now, session>>

ListSeizures ==
    \E a \in ListSeizuresInputs :
        LET result == list_seizures(seizures, a)
        IN  /\ Idle
            /\ last' = [op |-> "list_seizures", ret |-> "list", err |-> "none"]
            /\ UNCHANGED <<tables, statistics, now, session>>

ListInfractions ==
    \E a \in ListInfractionsInputs :
        LET result == list_infractions(infractions, a)
        IN  /\ Idle
            /\ last' = [op |-> "list_infractions", ret |-> "list", err |-> "none"]
            /\ UNCHANGED <<tables, statistics, now, session>>

GetActivityLog ==
    \E user_id \in OfficerInputs, limit \in LimitInputs :
        LET result == get_activity_log(activity_log, user_id, limit)
        IN  /\ Idle
            /\ last' = [op |-> "get_activity_log", ret |-> "list", err |-> "none"]
            /\ UNCHANGED <<tables, statistics, now, session>>

GetViolationStatistics ==
    \E w \in Windows :
        LET result == get_violation_statistics(violations, w[1], w[2])
        IN  /\ Idle
            /\ last' = [op |-> "get_violation_statistics", ret |-> "dict", err |-> "none"]
            /\ UNCHANGED <<tables, statistics, now, session>>

GetOfficerPerformance ==
    \E officer_id \in OfficerInputs, w \in Windows :
        LET result == get_officer_performance(violations, officer_id, w[1], w[2])
        IN  /\ Idle
            /\ last' = [op |-> "get_officer_performance", ret |-> "list", err |-> "none"]
            /\ UNCHANGED <<tables, statistics, now, session>>

GetSeizureStatistics ==
    \E w \in Windows :
        LET result == get_seizure_statistics(seizures, w[1], w[2])
        IN  /\ Idle
            /\ last' = [op |-> "get_seizure_statistics", ret |-> "dict", err |-> "none"]
            /\ UNCHANGED <<tables, statistics, now, session>>

GetInfractionStatistics ==
    \E w \in Windows :
        LET result == get_infraction_statistics(infractions, w[1], w[2])
        IN  /\ Idle
            /\ last' = [op |-> "get_infraction_statistics", ret |-> "dict", err |-> "none"]
            /\ UNCHANGED <<tables, statistics, now, session>>

GetDailyStatistics ==
    \E date \in SnapshotDates :
        LET result == get_daily_statistics(statistics, date)
        IN  /\ Idle
            /\ last' = [op |-> "get_daily_statistics", ret |-> Fetched(result), err |-> "none"]
            /\ UNCHANGED <<tables, statistics, now, session>>

SaveDailyStatistics ==
    \E date \in SnapshotDates :
        LET r == save_daily_statistics(Database, date, now)
        IN  /\ Idle
            /\ TotalRows < MaxRows
            /\ users' = r.db.users
            /\ violations' = r.db.violations
            /\ seizures' = r.db.seizures
            /\ infractions' = r.db.infractions
            /\ evidence' = r.db.evidence
            /\ activity_log' = r.db.activity_log
            /\ statistics' = r.db.statistics
            /\ last' = [op |-> "save_daily_statistics", ret |-> r.ret, err |-> r.err]
            /\ UNCHANGED <<now, session>>

ReportNext ==
    \/ ReportViolation \/ ReportSeizure \/ ReportInfraction \/ ReportActivity
    \/ ReviseViolation
    \/ GetUser \/ GetViolation \/ GetSeizure \/ GetInfraction \/ GetEvidence
    \/ ListViolations \/ ListSeizures \/ ListInfractions
    \/ GetActivityLog
    \/ GetViolationStatistics \/ GetOfficerPerformance
    \/ GetSeizureStatistics \/ GetInfractionStatistics
    \/ SaveDailyStatistics \/ GetDailyStatistics
    \/ Provision
    \/ Return
    \/ Tick

ReportSpec == Init /\ [][ReportNext]_vars

(***************************************************************************)
(* The login window at work: clicks on the login button with the texts of  *)
(* the two fields, the passing of time, and a new window (the program      *)
(* started again, or the login window shown again).                        *)
(***************************************************************************)
\* the texts <<username, password>> of the two fields at a click: a known user
\* with the right and with a wrong password, the name typed with blanks around
\* it, an unknown user, and a field left empty
LoginInputs ==
    {<<"admin", "password123">>, <<"admin", "wrong">>, <<" admin ", "wrong">>,
     <<"ghost", "wrong">>, <<"", "wrong">>, <<"admin", "">>}

OnLoginClicked ==
    \E input \in LoginInputs :
        LET username_input == input[1]
            password_input == input[2]
            r == on_login_clicked(failed_attempts_tracker, failed_attempts_json,
                                  username_input, password_input, clock)
        IN  /\ failed_attempts_tracker' = r.tracker
            /\ failed_attempts_json' = r.file
            /\ click' = [username |-> strip(username_input), status |-> r.status,
                         emitted |-> r.emitted]
            /\ lockouts' = IF r.lockout = NoneInt THEN lockouts
                           ELSE SetItem(lockouts, strip(username_input), r.lockout)
            /\ UNCHANGED <<clock, store, app>>

\* LoginWindow.__init__: the dict starts empty; the file is not read
NewLoginWindow ==
    /\ failed_attempts_tracker' = <<>>
    /\ click' = NoClick
    /\ UNCHANGED <<failed_attempts_json, clock, lockouts, store, app>>

\* a minute passes
LoginTick ==
    /\ clock < MaxClock
    /\ clock' = clock + 1
    /\ UNCHANGED <<failed_attempts_tracker, failed_attempts_json, click, lockouts, store,
                   app>>

LoginNext ==
    \/ OnLoginClicked
    \/ NewLoginWindow
    \/ LoginTick

LoginSpec == Init /\ [][LoginNext]_vars

(***************************************************************************)
(* The application at work: the steps of run() on the main thread, the     *)
(* initializer thread, and the events of the two windows.                  *)
(***************************************************************************)
AppStep(a) ==
    /\ app' = a
    /\ UNCHANGED <<store, login>>

SetupApplication ==
    \E ok \in BOOLEAN : app.pc = "setup_application" /\ AppStep(setup_application(app, ok))

StartInitializer ==
    app.pc = "initialize_database" /\ AppStep(start_initializer(app))

\* the thread runs to its end, at any time after start()
InitializerRuns ==
    \E ok \in BOOLEAN : app.thread = "running" /\ AppStep(DatabaseInitializer_run(app, ok))

\* wait returns: the thread has finished, or the 30 seconds are over
WaitReturns ==
    /\ app.pc = "wait"
    /\ AppStep([app EXCEPT !.pc = "check", !.emitted = ""])

\* start() or wait(timeout=30000) raises
InitializeDatabaseRaises ==
    app.pc = "wait" /\ AppStep(initialize_database_raised(app))

InitializeDatabase ==
    app.pc = "check" /\ AppStep(initialize_database(app))

HandleDatabaseError ==
    app.pc = "handle_database_error" /\ AppStep(handle_database_error(app))

\* run, step 4; the events of the new window are processed once (line 226)
\* before show_login_window returns
ShowLoginWindow ==
    \E ok \in BOOLEAN :
        /\ app.pc = "show_login_window"
        /\ AppStep(IF ok THEN [show_login_window(app, ok) EXCEPT !.pc = "processEvents"]
                   ELSE [show_login_window(app, ok) EXCEPT !.pc = "return",
                                                           !.returned = 1])

ShowLoginWindowReturns ==
    app.pc = "processEvents" /\ AppStep([app EXCEPT !.pc = "connect", !.emitted = ""])

ConnectSignals ==
    app.pc = "connect" /\ AppStep(connect_signals(app))

\* events reach a window while the main thread processes events
ProcessingEvents == app.pc \in {"processEvents", "exec"}

LoginSuccessful ==
    \E ok \in BOOLEAN :
        /\ ProcessingEvents
        /\ app.login_window = "shown"
        /\ AppStep(login_successful(app, ok))

\* the login window closes: its timer after a login, or the user
LoginWindowCloses ==
    /\ ProcessingEvents
    /\ app.login_window = "shown"
    /\ AppStep([app EXCEPT !.login_window = "closed", !.emitted = ""])

LogoutRequested ==
    \E ok \in BOOLEAN :
        /\ app.pc = "exec"
        /\ app.main_window = "shown"
        /\ AppStep(logout_requested(app, ok))

\* the last window is closed and app.exec() returns
Quit ==
    /\ app.pc = "exec"
    /\ app.login_window # "shown"
    /\ AppStep([app EXCEPT !.pc = "return", !.returned = 0, !.main_window =
                    IF @ = "shown" THEN "closed" ELSE @, !.emitted = ""])

AppNext ==
    \/ SetupApplication
    \/ StartInitializer
    \/ InitializerRuns
    \/ WaitReturns
    \/ InitializeDatabaseRaises
    \/ InitializeDatabase
    \/ HandleDatabaseError
    \/ ShowLoginWindow
    \/ ShowLoginWindowReturns
    \/ ConnectSignals
    \/ LoginSuccessful
    \/ LoginWindowCloses
    \/ LogoutRequested
    \/ Quit

AppSpec == Init /\ [][AppNext]_vars

(***************************************************************************)
(* Vocabulary of the properties: the entity tables by name, and the spec's *)
(* own lists of business keys, enumerated fields and user references.      *)
(***************************************************************************)
Entities == {"users", "violations", "seizures", "infractions", "evidence"}

Table(tbl) ==
    CASE tbl = "users" -> users
      [] tbl = "violations" -> violations
      [] tbl = "seizures" -> seizures
      [] tbl = "infractions" -> infractions
      [] tbl = "evidence" -> evidence

CreateInputs(tbl) ==
    CASE tbl = "users" -> CreateUserInputs
      [] tbl = "violations" -> CreateViolationInputs
      [] tbl = "seizures" -> CreateSeizureInputs
      [] tbl = "infractions" -> CreateInfractionInputs
      [] tbl = "evidence" -> CreateEvidenceInputs

UpdateInputs(tbl) ==
    CASE tbl = "users" -> UpdateUserInputs
      [] tbl = "violations" -> UpdateViolationInputs
      [] tbl = "seizures" -> UpdateSeizureInputs
      [] tbl = "infractions" -> UpdateInfractionInputs
      [] tbl = "evidence" -> UpdateEvidenceInputs

Create(tbl, a) ==
    CASE tbl = "users" -> create_user(users, a, now)
      [] tbl = "violations" -> create_violation(violations, a, now)
      [] tbl = "seizures" -> create_seizure(seizures, a, now)
      [] tbl = "infractions" -> create_infraction(infractions, a, now)
      [] tbl = "evidence" -> create_evidence(evidence, a, now)

UpdateCall(tbl, id, kwargs) ==
    CASE tbl = "users" -> update_user(users, id, kwargs, now)
      [] tbl = "violations" -> update_violation(violations, id, kwargs, now)
      [] tbl = "seizures" -> update_seizure(seizures, id, kwargs, now)
      [] tbl = "infractions" -> update_infraction(infractions, id, kwargs, now)
      [] tbl = "evidence" -> update_evidence(evidence, id, kwargs, now)

AllowList(tbl) ==
    CASE tbl = "users" -> allowed_fields_user
      [] tbl = "violations" -> allowed_fields_violation
      [] tbl = "seizures" -> allowed_fields_seizure
      [] tbl = "infractions" -> allowed_fields_infraction
      [] tbl = "evidence" -> allowed_fields_evidence

Keys(tbl) == {r[PrimaryKey(tbl)] : r \in RowsOf(Table(tbl))}

UserIds == Keys("users")

ViolationIds == Keys("violations")

\* the unique business fields of an entity
BusinessKeys(tbl) ==
    CASE tbl = "users" -> {"username", "email", "badge_number"}
      [] tbl = "violations" -> {"violation_number"}
      [] tbl = "seizures" -> {"seizure_number"}
      [] tbl = "infractions" -> {"infraction_number"}
      [] tbl = "evidence" -> {"evidence_number"}

\* the business number that identifies a row of an entity
BusinessNumber(tbl) ==
    CASE tbl = "users" -> "username"
      [] tbl = "violations" -> "violation_number"
      [] tbl = "seizures" -> "seizure_number"
      [] tbl = "infractions" -> "infraction_number"
      [] tbl = "evidence" -> "evidence_number"

\* the enumerated fields of an entity, each with its declared domain
EnumeratedFields(tbl) ==
    CASE tbl = "users" -> {<<"role", Roles>>}
      [] tbl = "violations" -> {<<"violation_type", ViolationTypes>>,
                                <<"severity_level", SeverityLevels>>,
                                <<"status", ViolationStatuses>>}
      [] tbl = "seizures" -> {<<"item_category", ItemCategories>>,
                              <<"status", SeizureStatuses>>}
      [] tbl = "infractions" -> {<<"status", InfractionStatuses>>}
      [] tbl = "evidence" -> {<<"evidence_type", EvidenceTypes>>,
                              <<"status", EvidenceStatuses>>}

\* a call that failed or found nothing to change: sqlite3.IntegrityError raised,
\* or False returned
Failed(call) == call.ret \in {"IntegrityError", "False"}

\* every failed call leaves all six tables as they were
FailedCallsWriteNothing == [][Failed(last') => tables' = tables]_vars

(***************************************************************************)
(* C1.  Children of a violation.                                           *)
(***************************************************************************)
ChildEntities == {"seizures", "infractions", "evidence"}

\* the row a step has appended to table t, as a set (empty when none was)
Appended(t, tNext) ==
    IF Len(tNext) > Len(t) THEN {tNext[Len(tNext)]} ELSE {}

\* C1: in every reachable state, create of a Seizure, Infraction or Evidence whose
\* violation_id identifies no stored Violation fails and adds no row to its table:
\* every row a step adds to one of the three tables carries the violation_id of a
\* Violation stored when the step is taken.
C1_CreateUnderMissingViolationFails ==
    [][\A r \in Appended(seizures, seizures') \cup Appended(infractions, infractions')
                \cup Appended(evidence, evidence') :
           r.violation_id \in ViolationIds]_vars

(***************************************************************************)
(* C2.  The cached evidence count.                                         *)
(***************************************************************************)
EvidenceUnder(violation_id) ==
    {i \in DOMAIN evidence : evidence[i].violation_id = violation_id}

\* C2: after any sequence of Evidence creates and updates, every Violation's
\* evidence_count equals the number of Evidence rows with its violation_id.
C2_EvidenceCountIsLiveCount ==
    \A v \in RowsOf(violations) :
        v.evidence_count = Cardinality(EvidenceUnder(v.violation_id))

(***************************************************************************)
(* C3.  Unique business fields.                                            *)
(***************************************************************************)
\* the call repeats a unique business field of a stored row
RepeatsBusinessKey(tbl, a) ==
    \E o \in RowsOf(Table(tbl)) : \E c \in BusinessKeys(tbl) :
        a[c] # None /\ a[c] = o[c]

\* C3: create with a unique business field equal to that of a stored row raises
\* sqlite3.IntegrityError and returns the table as it was; and no call that
\* fails changes any row of any table.
C3_DuplicateCreateConflicts ==
    /\ [](Idle =>
            \A tbl \in Entities : \A a \in CreateInputs(tbl) :
                RepeatsBusinessKey(tbl, a) =>
                    /\ Create(tbl, a).ret = "IntegrityError"
                    /\ Create(tbl, a).rows = Table(tbl))
    /\ FailedCallsWriteNothing

\* a second create_violation with a stored violation_number has just raised
C3_Witness ==
    /\ last = [op |-> "create_violation", ret |-> "IntegrityError", err |-> "UNIQUE"]
    /\ Len(violations) = 1

(***************************************************************************)
(* C4.  Update of an id that is not stored.                                *)
(***************************************************************************)
\* C4: update with at least one allow-listed field and an id that is not in the
\* entity's table does not report success and changes no row.
C4_UpdateOfMissingIdFails ==
    Idle =>
        \A tbl \in Entities : \A kwargs \in UpdateInputs(tbl) :
            \A id \in Ids(Table(tbl)) \ Keys(tbl) :
                DOMAIN kwargs \cap AllowList(tbl) # {} =>
                    /\ UpdateCall(tbl, id, kwargs).ret # "True"
                    /\ UpdateCall(tbl, id, kwargs).rows = Table(tbl)

(***************************************************************************)
(* C5.  Update with nothing to change.                                     *)
(***************************************************************************)
\* C5: update with no keyword, or with keywords outside the allow-list only,
\* returns False and returns the table as it was (updated_at included); and no
\* call that fails changes any row of any table.
C5_EmptyUpdateIsNoOp ==
    /\ [](Idle =>
            \A tbl \in Entities : \A kwargs \in UpdateInputs(tbl) :
                \A id \in Ids(Table(tbl)) :
                    DOMAIN kwargs \cap AllowList(tbl) = {} =>
                        /\ UpdateCall(tbl, id, kwargs).ret = "False"
                        /\ UpdateCall(tbl, id, kwargs).rows = Table(tbl))
    /\ FailedCallsWriteNothing

\* update_violation has just returned False without running SQL, on a table whose
\* row was stamped before the present reading of the clock
C5_Witness ==
    /\ last = [op |-> "update_violation", ret |-> "False", err |-> "none"]
    /\ \E v \in RowsOf(violations) : v.updated_at < now

(***************************************************************************)
(* C6.  Enumerated fields.                                                 *)
(***************************************************************************)
\* C6: in every reachable state, each enumerated field of each stored row holds
\* one of its declared domain values.
C6_EnumeratedFieldsInDomain ==
    \A tbl \in Entities : \A r \in RowsOf(Table(tbl)) :
        \A f \in EnumeratedFields(tbl) : r[f[1]] \in f[2]

\* update_violation has just moved a violation to another status of the domain
C6_Witness ==
    /\ last = [op |-> "update_violation", ret |-> "True", err |-> "none"]
    /\ \E v \in RowsOf(violations) : v.status = "closed"

(***************************************************************************)
(* C7.  Update with an enumerated value outside its domain.                *)
(***************************************************************************)
\* the keywords supply an allow-listed enumerated field with a value outside its
\* declared domain
SuppliesOutOfDomain(tbl, kwargs) ==
    \E f \in EnumeratedFields(tbl) :
        /\ f[1] \in DOMAIN kwargs \cap AllowList(tbl)
        /\ kwargs[f[1]] \notin f[2]

\* C7: update of a stored row that supplies an out-of-domain value for an
\* enumerated field returns False and returns the table as it was, the other
\* allow-listed fields of the call and updated_at included; and no call that
\* fails changes any row of any table.
C7_OutOfDomainUpdateRejected ==
    /\ [](Idle =>
            \A tbl \in Entities : \A kwargs \in UpdateInputs(tbl) :
                \A id \in Keys(tbl) :
                    SuppliesOutOfDomain(tbl, kwargs) =>
                        /\ UpdateCall(tbl, id, kwargs).ret = "False"
                        /\ UpdateCall(tbl, id, kwargs).rows = Table(tbl))
    /\ FailedCallsWriteNothing

\* update_seizure has just been refused by a CHECK constraint, on a row stamped
\* before the present reading of the clock and still without a release reason
C7_Witness ==
    /\ last = [op |-> "update_seizure", ret |-> "False", err |-> "CHECK"]
    /\ \E r \in RowsOf(seizures) : r.updated_at < now /\ r.release_reason = None

(***************************************************************************)
(* C8.  References to users.                                               *)
(***************************************************************************)
\* the user references of an entity
UserReferences(tbl) ==
    CASE tbl = "violations" -> {"officer_id"}
      [] tbl = "seizures" -> {"officer_id", "release_authorized_by"}
      [] tbl = "infractions" -> {"prosecutor_id", "judge_id"}
      [] tbl = "evidence" -> {"collected_by"}
      [] tbl = "activity_log" -> {"user_id"}

\* the user references a step has written into table t: those of an appended row
\* and those an update has changed
WrittenUserReferences(tbl, t, tNext) ==
    {r[c] : r \in Appended(t, tNext), c \in UserReferences(tbl)}
    \cup UNION {{tNext[i][c] : c \in {d \in UserReferences(tbl) : tNext[i][d] # t[i][d]}} :
                    i \in DOMAIN t \cap DOMAIN tNext}

\* C8: every write that supplies a User reference is rejected and writes nothing
\* when the referenced user id is not stored at the time of the write: every
\* reference a step writes is NULL or the key of a user stored when the step is
\* taken.
C8_UserReferencesResolve ==
    [][(WrittenUserReferences("violations", violations, violations')
        \cup WrittenUserReferences("seizures", seizures, seizures')
        \cup WrittenUserReferences("infractions", infractions, infractions')
        \cup WrittenUserReferences("evidence", evidence, evidence')
        \cup WrittenUserReferences("activity_log", activity_log, activity_log'))
            \subseteq UserIds \cup {NoneInt}]_vars

(***************************************************************************)
(* C9.  Identity of a row.                                                 *)
(***************************************************************************)
KeepsIdentity(tbl, t, tNext) ==
    \A i \in DOMAIN t :
        /\ i \in DOMAIN tNext
        /\ tNext[i][PrimaryKey(tbl)] = t[i][PrimaryKey(tbl)]
        /\ tNext[i][BusinessNumber(tbl)] = t[i][BusinessNumber(tbl)]

\* C9: once a row is stored, its business number (a user's username) and its
\* surrogate key keep their values through every call.
C9_IdentityIsImmutable ==
    [][/\ KeepsIdentity("users", users, users')
       /\ KeepsIdentity("violations", violations, violations')
       /\ KeepsIdentity("seizures", seizures, seizures')
       /\ KeepsIdentity("infractions", infractions, infractions')
       /\ KeepsIdentity("evidence", evidence, evidence')]_vars

\* update_violation, called with a new violation_number next to allow-listed
\* fields, has just changed the allow-listed fields
C9_Witness ==
    /\ last = [op |-> "update_violation", ret |-> "True", err |-> "none"]
    /\ \E v \in RowsOf(violations) :
            v.violator_name = "n2" /\ v.violation_number \in {"V1", "V2"}

(***************************************************************************)
(* C10.  Release of a seizure.                                             *)
(***************************************************************************)
\* C10: in every reachable state a seizure whose status is stored or pending has
\* its release date, release authorizer and release reason empty.
C10_ReleaseFieldsOnlyOnRelease ==
    \A r \in RowsOf(seizures) :
        r.status \in {"stored", "pending"} =>
            /\ r.release_date = NoneInt
            /\ r.release_authorized_by = NoneInt
            /\ r.release_reason = None

(***************************************************************************)
(* C11.  Violation statistics against the listed rows.                     *)
(***************************************************************************)
\* the number of the rows whose column holds the value k
Holding(rows, column, k) == Cardinality({i \in DOMAIN rows : rows[i][column] = k})

\* the breakdown a dict of counts stands for: 0 for a key it does not hold
Breakdown(dict, k) == IF k \in DOMAIN dict THEN dict[k] ELSE 0

\* the fines of the rows added up, an unset fine counting as zero
FineSum(rows) ==
    Sum([i \in DOMAIN rows |-> IF rows[i].fine_amount = NoneInt THEN 0
                               ELSE rows[i].fine_amount])

\* C11: in every state and for every window, get_violation_statistics returns
\* the total, the counts by type, by severity and by status and the fine sum
\* (unset fines as zero) computed from the rows list_violations returns for the
\* same start_date and end_date.
C11_StatisticsMatchList ==
    Idle =>
        \A w \in Windows :
            LET stats == get_violation_statistics(violations, w[1], w[2])
                rows == list_violations(violations,
                            [NoFilter EXCEPT !.start_date = w[1], !.end_date = w[2]])
            IN  /\ stats.total_violations = Len(rows)
                /\ DOMAIN stats.violations_by_type \subseteq ViolationTypes
                /\ \A k \in ViolationTypes :
                       Breakdown(stats.violations_by_type, k) = Holding(rows, "violation_type", k)
                /\ DOMAIN stats.violations_by_severity \subseteq SeverityLevels
                /\ \A k \in SeverityLevels :
                       Breakdown(stats.violations_by_severity, k)
                           = Holding(rows, "severity_level", k)
                /\ DOMAIN stats.violations_by_status \subseteq ViolationStatuses
                /\ \A k \in ViolationStatuses :
                       Breakdown(stats.violations_by_status, k) = Holding(rows, "status", k)
                /\ stats.total_fines = FineSum(rows)

\* two violations are stored, one with a fine and one without, and a window
\* bounded below takes the one with the fine and leaves the other out
C11_Witness ==
    /\ Idle
    /\ Len(violations) = 2
    /\ \E w \in Windows :
           /\ w[1] # NoneDatetime
           /\ get_violation_statistics(violations, w[1], w[2]).total_violations = 1
           /\ get_violation_statistics(violations, w[1], w[2]).total_fines = 10
    /\ \E i \in DOMAIN violations : violations[i].fine_amount = NoneInt

(***************************************************************************)
(* C12.  A snapshot taken twice.                                           *)
(***************************************************************************)
\* what a statistics row records: every column but its surrogate key and the
\* time it was written
Contents(row) == [c \in DOMAIN row \ {"stat_id", "created_at"} |-> row[c]]

\* the statistics table after save_daily_statistics(date) on table t
Snapshot(t, date) ==
    save_daily_statistics([Database EXCEPT !.statistics = t], date, now).db.statistics

\* C12: in every state, save_daily_statistics run twice for the same calendar
\* date with no write in between leaves one row for the date, with the contents
\* the first run stored; and no two statistics rows share a date.
C12_SnapshotIsIdempotent ==
    /\ \A i, j \in DOMAIN statistics : i # j => statistics[i].date # statistics[j].date
    /\ Idle =>
           \A d1, d2 \in SnapshotDates :
               d1.day = d2.day =>
                   LET first == get_daily_statistics(Snapshot(statistics, d1), d1)
                       second == get_daily_statistics(
                                     Snapshot(Snapshot(statistics, d1), d2), d2)
                   IN  /\ Len(second) = 1
                       /\ Len(first) = 1
                       /\ Contents(second[1]) = Contents(first[1])

(***************************************************************************)
(* C13, C14.  What a snapshot counts.                                      *)
(***************************************************************************)
\* the row a step of save_daily_statistics has stored
Stored(t, tNext) ==
    {tNext[i] : i \in {j \in DOMAIN tNext : \A k \in DOMAIN t : t[k].stat_id # tNext[j].stat_id}}

\* C13: the row save_daily_statistics stores holds, as its infraction total, the
\* number of the infractions recorded on the row's date.
C13_SnapshotCountsInfractions ==
    [][last'.op = "save_daily_statistics" =>
           \A row \in Stored(statistics, statistics') :
               row.total_infractions =
                   Cardinality({i \in DOMAIN infractions :
                       CURRENT_TIMESTAMP(infractions[i].created_at).day = row.date.day})]_vars

\* the rows dated from 00:00:00 to 23:59:59 of the day
WithinDay(t, column, day) ==
    {i \in DOMAIN t : /\ TextLeq(adapt_datetime(Datetime(day, 0, 0)), t[i][column])
                      /\ TextLeq(t[i][column], adapt_datetime(Datetime(day, LastSecond, 0)))}

\* the rows dated on the day, its last second to the end included
OnDay(t, column, day) == {i \in DOMAIN t : t[i][column].day = day}

\* C14: whatever the time of day of its argument, save_daily_statistics stores
\* violation and seizure totals that count every row dated from 00:00:00 to
\* 23:59:59 of the argument's date and no row of another date.
C14_SnapshotCoversTheDay ==
    [][last'.op = "save_daily_statistics" =>
           \A row \in Stored(statistics, statistics') :
               /\ row.total_violations
                      >= Cardinality(WithinDay(violations, "violation_date", row.date.day))
               /\ row.total_violations
                      <= Cardinality(OnDay(violations, "violation_date", row.date.day))
               /\ row.total_seizures
                      >= Cardinality(WithinDay(seizures, "seizure_date", row.date.day))
               /\ row.total_seizures
                      <= Cardinality(OnDay(seizures, "seizure_date", row.date.day))]_vars

(***************************************************************************)
(* C15.  The statistics operations write the statistics table only.        *)
(***************************************************************************)
StatisticsOperations ==
    {"get_violation_statistics", "get_seizure_statistics", "get_infraction_statistics",
     "get_officer_performance", "save_daily_statistics", "get_daily_statistics"}

\* C15: a statistics operation leaves the users, violations, seizures,
\* infractions, evidence and activity_log tables as they were, and of the
\* statistics operations only save_daily_statistics changes the statistics table.
C15_StatisticsWriteOnlyStatistics ==
    [][last'.op \in StatisticsOperations =>
           /\ tables' = tables
           /\ statistics' # statistics => last'.op = "save_daily_statistics"]_vars

\* save_daily_statistics has just stored a row while an activity log entry is
\* stored
C15_Witness ==
    /\ last.op = "save_daily_statistics"
    /\ Len(statistics) = 1
    /\ Len(activity_log) = 1

(***************************************************************************)
(* C16.  The activity log is append-only.                                  *)
(***************************************************************************)
\* s is an initial part of t
IsPrefix(s, t) == Len(s) <= Len(t) /\ SubSeq(t, 1, Len(s)) = s

\* C16: every step keeps each activity log row recorded so far, in its place and
\* unchanged; a log_activity that returns adds exactly one row, and no other
\* step adds or removes one.
C16_ActivityLogIsAppendOnly ==
    [][/\ IsPrefix(activity_log, activity_log')
       /\ Len(activity_log') =
              IF last'.op = "log_activity" /\ last'.ret = "rowid"
              THEN Len(activity_log) + 1 ELSE Len(activity_log)]_vars

\* log_activity has just recorded a second entry after the first
C16_Witness ==
    /\ last.op = "log_activity"
    /\ last.ret = "rowid"
    /\ Len(activity_log) = 2

(***************************************************************************)
(* C17.  Reading the activity log.                                         *)
(***************************************************************************)
\* the k entries of s recorded last, the one recorded last first
NewestFirst(s, k) == [i \in 1 .. k |-> s[Len(s) + 1 - i]]

Min(m, n) == IF m <= n THEN m ELSE n

\* C17: in every state, get_activity_log(user_id, limit) returns the
\* min(limit, number of matching entries) entries recorded last, of the given
\* actor when one is given, each entry before every entry recorded earlier than
\* it, entries of one timestamp included.
C17_ActivityLogNewestFirst ==
    Idle =>
        \A user_id \in {NoneInt, 1, 2}, limit \in LimitInputs :
            LET matching == SelectSeq(activity_log,
                                LAMBDA r : user_id = NoneInt \/ r.user_id = user_id)
            IN  get_activity_log(activity_log, user_id, limit)
                    = NewestFirst(matching, Min(limit, Len(matching)))

(***************************************************************************)
(* C18.  A created record is read back as it was passed.                   *)
(***************************************************************************)
\* C18: in every state, a create that succeeds returns a key greater than every
\* key of the entity so far, and get with that key returns one record whose
\* every supplied field equals the value passed to create.
C18_CreateThenGetRoundTrips ==
    Idle =>
        \A tbl \in Entities :
            \A a \in CreateInputs(tbl) :
                LET r == Create(tbl, a)
                    lastrowid == NextRowId(Table(tbl))
                    got == Get(tbl, r.rows, lastrowid)
                IN  r.ret = "rowid" =>
                        /\ \A i \in DOMAIN Table(tbl) :
                               Table(tbl)[i][PrimaryKey(tbl)] < lastrowid
                        /\ Len(got) = 1
                        /\ \A f \in DOMAIN a : got[1][f] = a[f]

(***************************************************************************)
(* C19.  The list methods apply every filter that is supplied.             *)
(***************************************************************************)
\* row r passes every filter of a that is supplied, that is, not None
Passes(a, r, intColumns, textColumns) ==
    /\ \A c \in intColumns : a[c] # NoneInt => r[c] = a[c]
    /\ \A c \in textColumns : a[c] # None => r[c] = a[c]

\* result holds exactly the rows of `expected`, each once, a row of a greater
\* value in the column never after one of a smaller value
ExactlyNewestFirst(result, expected, column) ==
    /\ {result[i] : i \in DOMAIN result} = expected
    /\ Len(result) = Cardinality(expected)
    /\ \A i, j \in DOMAIN result :
           i < j => ColumnLeq(column, result[j][column], result[i][column])

\* C19: in every state, list_violations, list_seizures and list_infractions
\* return exactly the stored rows that pass every supplied filter, whatever its
\* value, most recent first by violation date, seizure date and creation time;
\* the empty list when no row passes.
C19_ListsApplyEveryFilter ==
    Idle =>
        /\ \A a \in ListViolationsInputs :
               ExactlyNewestFirst(
                   list_violations(violations, a),
                   {v \in RowsOf(violations) :
                       /\ Passes(a, v, {"officer_id"},
                                 {"status", "violation_type", "severity_level"})
                       /\ a.start_date # NoneDatetime
                              => TextLeq(adapt_datetime(a.start_date), v.violation_date)
                       /\ a.end_date # NoneDatetime
                              => TextLeq(v.violation_date, adapt_datetime(a.end_date))},
                   "violation_date")
        /\ \A a \in ListSeizuresInputs :
               ExactlyNewestFirst(
                   list_seizures(seizures, a),
                   {r \in RowsOf(seizures) :
                       Passes(a, r, {"violation_id", "officer_id"},
                              {"status", "item_category"})},
                   "seizure_date")
        /\ \A a \in ListInfractionsInputs :
               ExactlyNewestFirst(
                   list_infractions(infractions, a),
                   {r \in RowsOf(infractions) :
                       Passes(a, r, {"violation_id"}, {"status", "infraction_type"})},
                   "created_at")

(***************************************************************************)
(* C20.  Officer performance.                                              *)
(***************************************************************************)
\* C20: in every state, for every officer argument and window,
\* get_officer_performance returns one entry per officer with a violation in the
\* window, of the given officer alone when one is given, each with the officer's
\* count and fine sum, counts never increasing; without an officer argument the
\* counts add up to the total of get_violation_statistics for the window.
C20_OfficerPerformance ==
    Idle =>
        \A officer_id \in OfficerInputs, w \in Windows :
            LET perf == get_officer_performance(violations, officer_id, w[1], w[2])
                inWindow == SelectSeq(violations,
                                LAMBDA v : InWindow(v.violation_date, w[1], w[2]))
                Of(o) == SelectSeq(inWindow, LAMBDA v : v.officer_id = o)
                officers == {o \in {inWindow[i].officer_id : i \in DOMAIN inWindow} :
                                officer_id # NoneInt => o = officer_id}
            IN  /\ {perf[i].officer_id : i \in DOMAIN perf} = officers
                /\ Len(perf) = Cardinality(officers)
                /\ \A i \in DOMAIN perf :
                       /\ perf[i].violations_count = Len(Of(perf[i].officer_id))
                       /\ perf[i].total_fines = FineSum(Of(perf[i].officer_id))
                /\ \A i, j \in DOMAIN perf :
                       i < j => perf[i].violations_count >= perf[j].violations_count
                /\ officer_id = NoneInt =>
                       Sum([i \in DOMAIN perf |-> perf[i].violations_count])
                           = get_violation_statistics(violations, w[1], w[2]).total_violations

(***************************************************************************)
(* C21.  Provisioning an already provisioned store.                        *)
(***************************************************************************)
\* C21: create_tables, called directly or by constructing Database, succeeds on
\* the provisioned store and leaves every row of every table as it was.
C21_ProvisioningIsIdempotent ==
    [][last'.op \in {"create_tables", "__init__"} =>
           /\ last'.err = "none"
           /\ tables' = tables
           /\ statistics' = statistics]_vars

\* the store has been provisioned again while it holds a violation and a
\* statistics row
C21_Witness ==
    /\ last.op \in {"create_tables", "__init__"}
    /\ Len(violations) = 1
    /\ Len(statistics) = 1

(***************************************************************************)
(* C22, C23.  Lockout and the login_failed signal.                         *)
(***************************************************************************)
\* a step is a click whose outcome is for username
ClickFor(username) == click' # click /\ click'.username = username

\* C22: from the moment a username has MAX_LOGIN_ATTEMPTS failed attempts until
\* LOCKOUT_DURATION minutes later, every click for the username is rejected
\* before the credentials are looked at, whatever the password, and
\* login_successful is not emitted.
C22_LockedAccountRejectsLogin ==
    [][\A username \in DOMAIN lockouts :
           clock < lockouts[username] /\ ClickFor(username) =>
               /\ click'.status \in {"account_locked", "invalid_input"}
               /\ "login_successful" \notin click'.emitted]_vars

\* C23: a click that fails, for an unknown user, a wrong password or a locked
\* account, emits login_failed.
C23_LoginFailedIsEmitted ==
    [][click' # click
           /\ click'.status \in {"user_not_found", "invalid_credentials", "account_locked"}
           => "login_failed" \in click'.emitted]_vars

(***************************************************************************)
(* C26, C27, C29.  The record of failed attempts.                          *)
(***************************************************************************)
\* the failed attempts on record for the username in the dict
Attempts(tracker, username) ==
    IF username \in DOMAIN tracker THEN tracker[username].attempts ELSE 0

\* C26: a click that logs the username in leaves no record of it in the dict and
\* in the file, and a failed click for a username without a record counts as its
\* first attempt and sets no lock.
C26_SuccessClearsFailedAttempts ==
    [][/\ click' # click /\ click'.status = "login_success" =>
              /\ click'.username \notin DOMAIN failed_attempts_tracker'
              /\ click'.username \notin DOMAIN json_load(failed_attempts_json')
       /\ \A username \in DOMAIN failed_attempts_tracker' \ DOMAIN failed_attempts_tracker :
              /\ failed_attempts_tracker'[username].attempts = 1
              /\ failed_attempts_tracker'[username].locked_until = NoneDatetime]_vars

\* admin, locked out once, has logged in after the lock expired, and the record
\* the lock check left has been removed
C26_Witness ==
    /\ click.status = "login_success"
    /\ click.username = "admin"
    /\ "admin" \in DOMAIN lockouts
    /\ clock >= lockouts["admin"]
    /\ "admin" \notin DOMAIN failed_attempts_tracker

\* C27: a click for a username whose lock has expired resets the record to no
\* attempts and no lock before it goes on (so that the record is gone or holds
\* at most the attempt of this click); a lock stands on a record of
\* MAX_LOGIN_ATTEMPTS attempts only, and a step adds at most one attempt.
C27_ExpiredLockIsReset ==
    [][/\ \A username \in DOMAIN failed_attempts_tracker :
              /\ ClickFor(username)
              /\ failed_attempts_tracker[username].locked_until # NoneDatetime
              /\ clock >= fromisoformat(failed_attempts_tracker[username].locked_until).minute
              => \/ username \notin DOMAIN failed_attempts_tracker'
                 \/ /\ failed_attempts_tracker'[username].locked_until = NoneDatetime
                    /\ failed_attempts_tracker'[username].attempts <= 1
       /\ \A username \in DOMAIN failed_attempts_tracker' :
              /\ failed_attempts_tracker'[username].locked_until # NoneDatetime
                     => failed_attempts_tracker'[username].attempts = MAX_LOGIN_ATTEMPTS
              /\ failed_attempts_tracker'[username].attempts
                     <= Attempts(failed_attempts_tracker, username) + 1]_vars

\* admin's lock has expired and the next click, a failed one, is the first
\* attempt on the record
C27_Witness ==
    /\ "admin" \in DOMAIN lockouts
    /\ clock >= lockouts["admin"]
    /\ click.username = "admin"
    /\ click.status = "invalid_credentials"
    /\ failed_attempts_tracker["admin"] = [attempts |-> 1, locked_until |-> NoneDatetime]

\* C29: the counts and locks a login window has recorded, which are those of
\* failed_attempts.json, are in force in the login window at work: its dict
\* holds them.
C29_AttemptsOutliveTheWindow ==
    failed_attempts_json # NoFile =>
        \A username \in DOMAIN json_load(failed_attempts_json) :
            /\ username \in DOMAIN failed_attempts_tracker
            /\ failed_attempts_tracker[username] = json_load(failed_attempts_json)[username]


(***************************************************************************)
(* C24.  When the main window requests logout, the logout handler of the   *)
(* application runs and the login window is shown again: a step that emits *)
(* logout_requested leaves handle_logout entered and, unless the login     *)
(* window could not be built, the login window shown.                      *)
(***************************************************************************)
C24_LogoutRunsTheHandler ==
    [][app'.emitted = "logout_requested"
         => /\ "handle_logout" \in app'.entered
            /\ \/ app'.login_window = "shown"
               \/ "login window failed" \in app'.dialogs]_vars

(***************************************************************************)
(* C25.  The main window is created and shown only after a successful      *)
(* authentication: in every run show_main_window is not entered, and no    *)
(* main window exists, before login_successful has been emitted.           *)
(***************************************************************************)
C25_MainWindowOnlyAfterLogin ==
    ("show_main_window" \in app.entered \/ app.main_window # "None")
        => "login_successful" \in app.signals

C25_Witness ==
    /\ app.main_window = "shown"
    /\ "show_main_window" \in app.entered
    /\ "login_successful" \in app.signals

(***************************************************************************)
(* C28.  When the initialization of the database fails at startup, the     *)
(* application sets offline mode, tells the user, and goes on to show the  *)
(* login window; the run is given up (exit code 1) only when the setup of  *)
(* the application or the login window fails.                              *)
(***************************************************************************)
AfterDatabaseStep == {"show_login_window", "processEvents", "connect", "exec"}

C28_DatabaseFailureGoesOffline ==
    [][/\ (app.pc = "check" /\ ~app.success /\ app'.pc # "check")
            => (app'.is_offline /\ app'.pc = "handle_database_error")
       /\ (app.pc = "handle_database_error" /\ app'.pc # app.pc)
            => (app'.pc = "show_login_window" /\ "offline mode" \in app'.dialogs)
       /\ (app'.is_offline /\ app'.pc \in AfterDatabaseStep)
            => "offline mode" \in app'.dialogs
       /\ app'.returned = 1
            => app'.dialogs \cap {"setup failed", "login window failed"} # {}]_vars

C28_Witness ==
    /\ app.is_offline
    /\ "offline mode" \in app.dialogs
    /\ app.login_window = "shown"
    /\ app.pc = "exec"

(***************************************************************************)
(* C30.  Under every interleaving of the initializer thread with the wait  *)
(* of the main thread, the initializer never has finished with success     *)
(* true while is_offline is true.                                          *)
(***************************************************************************)
C30_SuccessIsNeverOffline ==
    ~(app.thread = "finished" /\ app.success /\ app.is_offline)

====
